---- MODULE Spec2Model ----
(***************************************************************************)
(* A model of the transaction-construction library: byte serialization and *)
(* script numbers (serialize.rs), the script model (script.rs), the wire   *)
(* format (tx.rs), the simple outputs and SLP SEND (outputs.rs), the       *)
(* unsigned-transaction builder and the sighash pre-image                  *)
(* (unsigned_tx.rs), the Trade-Offer covenant (advanced_trade_offer.rs),   *)
(* the ascending-nonce covenant (p2_ascending_nonce.rs) and CashAddr       *)
(* addresses (address.rs).                                                 *)
(*                                                                         *)
(* Unsigned fixed-width integers (u8 .. u64) are kept as their             *)
(* little-endian byte digits, so that 64-bit wrap-around is exact; an i32  *)
(* is a plain integer whose arithmetic is checked against the i32 range;   *)
(* lengths and indices (usize) are plain integers.                         *)
(***************************************************************************)
EXTENDS Integers, Sequences, FiniteSets, TLC

VARIABLES
    utx,              \* the UnsignedTx under construction
    res,              \* what the last call on the builder returned
    overflow_checks,  \* the build profile: TRUE panics on overflow, FALSE wraps
    sc_data,          \* bytes handed to Script::from_serialized / ops to Script::new
    sc_script,        \* the Script obtained from them (None before the call)
    op_push,          \* an Op handed to Op::write_to_stream
    op_flag,          \* its is_minimal_push argument
    op_bytes,         \* what it wrote
    vi_number,        \* a u64 handed to write_var_int
    vi_stream,        \* the stream after write_var_int (followed by other bytes)
    vi_read,          \* what read_var_int returned on that stream
    fn_call,          \* a call of a free function or of a method of an Output
    fn_ret            \* what that call returned (None before it returns)

vars == <<utx, res, overflow_checks, sc_data, sc_script,
          op_push, op_flag, op_bytes, vi_number, vi_stream, vi_read,
          fn_call, fn_ret>>

----------------------------------------------------------------------------
(* Option<T> and io::Result<T>                                              *)

None == <<>>

Some(x) == <<x>>

IsSome(o) == o /= <<>>

Unwrap(o) == o[1]

\* An io::Error (UnexpectedEof or InvalidData); `rest` is what is left unread.
Err(kind) == [ok |-> FALSE, kind |-> kind]

Ok(value, rest) == [ok |-> TRUE, value |-> value, rest |-> rest]

----------------------------------------------------------------------------
(* Bytes and fixed-width little-endian integers                             *)

Zeros(n) == [i \in 1 .. n |-> 0]

Fill(n, b) == [i \in 1 .. n |-> b]

Take(s, n) == SubSeq(s, 1, n)

Drop(s, n) == SubSeq(s, n + 1, Len(s))

\* &data[from..to] with 0-based, end-exclusive bounds
Slice(s, from, to) == SubSeq(s, from + 1, to)

AllZero(s) == \A i \in 1 .. Len(s) : s[i] = 0

\* the lists of at most max elements of a set
RECURSIVE ListsUpTo(_, _)
ListsUpTo(set, max) ==
    IF max = 0 THEN {<<>>}
    ELSE LET shorter == ListsUpTo(set, max - 1) IN
         shorter \cup {Append(l, e) : l \in shorter, e \in set}

\* the concatenation of a list of byte strings, by halves
RECURSIVE Flatten(_)
Flatten(ss) ==
    IF ss = <<>> THEN <<>>
    ELSE IF Len(ss) = 1 THEN ss[1]
    ELSE LET half == Len(ss) \div 2
         IN  Flatten(SubSeq(ss, 1, half)) \o Flatten(SubSeq(ss, half + 1, Len(ss)))

\* `n as u8`, write_u16/u32/u64::<LittleEndian> of a usize below 2^31
LeBytes(n, width) ==
    [i \in 1 .. width |->
        CASE i = 1 -> n % 256
          [] i = 2 -> (n \div 256) % 256
          [] i = 3 -> (n \div 65536) % 256
          [] i = 4 -> (n \div 16777216) % 256
          [] OTHER -> 0]

\* `x as u64` of a usize
U64(n) == LeBytes(n, 8)

\* `x as usize` of little-endian digits known to stay below 2^31
LeValue(s) ==
    (IF Len(s) >= 1 THEN s[1] ELSE 0)
    + (IF Len(s) >= 2 THEN s[2] * 256 ELSE 0)
    + (IF Len(s) >= 3 THEN s[3] * 65536 ELSE 0)
    + (IF Len(s) >= 4 THEN s[4] * 16777216 ELSE 0)

\* whether little-endian digits denote more than `limit` (a usize below 2^31)
LeExceeds(s, limit) ==
    IF (Len(s) >= 4 /\ s[4] >= 128) \/ ~AllZero(Drop(s, 4))
    THEN TRUE
    ELSE LeValue(s) > limit

\* zero-extension: `x as u64` of a u8/u16/u32
ZeroExtend(s, width) == s \o Zeros(width - Len(s))

\* a < b on equal-width little-endian digits
RECURSIVE LeLess(_, _)
LeLess(a, b) ==
    IF a = <<>> THEN FALSE
    ELSE LET n == Len(a) IN
         IF a[n] /= b[n] THEN a[n] < b[n]
         ELSE LeLess(Take(a, n - 1), Take(b, n - 1))

\* a + b on equal-width digits, digit by digit from the lowest: the wrapped
\* sum and whether it overflowed
RECURSIVE add_digits(_, _, _, _, _)
add_digits(a, b, i, carry, acc) ==
    IF i > Len(a) THEN [value |-> acc, overflow |-> carry /= 0]
    ELSE LET digit == a[i] + b[i] + carry IN
         add_digits(a, b, i + 1, digit \div 256, Append(acc, digit % 256))

LeAdd(a, b) == add_digits(a, b, 1, 0, <<>>)

\* a - b on equal-width digits: the wrapped difference and whether it underflowed
RECURSIVE sub_digits(_, _, _, _, _)
sub_digits(a, b, i, borrow, acc) ==
    IF i > Len(a) THEN [value |-> acc, overflow |-> borrow /= 0]
    ELSE LET digit == a[i] - b[i] - borrow IN
         sub_digits(a, b, i + 1, IF digit < 0 THEN 1 ELSE 0, Append(acc, (digit + 256) % 256))

LeSub(a, b) == sub_digits(a, b, 1, 0, <<>>)

\* the sum of the digit products a[i] * b[j] with i + j = k + 1
RECURSIVE column(_, _, _, _, _)
column(a, b, k, i, acc) ==
    IF i > Len(a) \/ i > k THEN acc
    ELSE column(a, b, k, i + 1,
                acc + (IF k + 1 - i <= Len(b) THEN a[i] * b[k + 1 - i] ELSE 0))

\* a * b on equal-width digits: the wrapped product and whether it overflowed
RECURSIVE mul_digits(_, _, _, _, _, _)
mul_digits(a, b, k, carry, acc, overflow) ==
    IF k > 2 * Len(a) THEN [value |-> acc, overflow |-> overflow]
    ELSE LET digit == column(a, b, k, 1, 0) + carry IN
         IF k <= Len(a)
         THEN mul_digits(a, b, k + 1, digit \div 256, Append(acc, digit % 256), overflow)
         ELSE mul_digits(a, b, k + 1, digit \div 256, acc, overflow \/ digit % 256 /= 0)

LeMul(a, b) == mul_digits(a, b, 1, 0, <<>>, FALSE)

\* a / d on little-endian digits, for a small divisor d, from the top digit down
RECURSIVE div_digits(_, _, _, _, _)
div_digits(a, d, i, rem, acc) ==
    IF i = 0 THEN acc
    ELSE LET cur == rem * 256 + a[i] IN
         div_digits(a, d, i - 1, cur % d, <<cur \div d>> \o acc)

LeDivSmall(a, d) == div_digits(a, d, Len(a), 0, <<>>)

----------------------------------------------------------------------------
(* serialize.rs: the compact-size integer                                   *)

\* a faulty variant: 0xfd itself is written as a single byte
write_var_int_off_by_one(number) ==
    IF AllZero(Drop(number, 1)) /\ number[1] <= 253 THEN <<number[1]>>
    ELSE IF AllZero(Drop(number, 2)) THEN <<253>> \o Take(number, 2)
    ELSE IF AllZero(Drop(number, 4)) THEN <<254>> \o Take(number, 4)
    ELSE <<255>> \o number

\* write_var_int(write, number: u64): the bytes written
write_var_int(number) ==
    IF AllZero(Drop(number, 1)) /\ number[1] <= 252 THEN <<number[1]>>
    ELSE IF AllZero(Drop(number, 2)) THEN <<253>> \o Take(number, 2)
    ELSE IF AllZero(Drop(number, 4)) THEN <<254>> \o Take(number, 4)
    ELSE <<255>> \o number

\* read.read_u8 / read_u16 / read_u32 / read_u64 / read_exact: `width` bytes
read_exact(read, width) ==
    IF Len(read) < width THEN Err("UnexpectedEof")
    ELSE Ok(Take(read, width), Drop(read, width))

\* read_var_int(read): Ok(u64, what is left of the stream) or an error
read_var_int(read) ==
    LET first == read_exact(read, 1) IN
    IF ~first.ok THEN first
    ELSE LET first_byte == first.value[1]
             width == CASE first_byte <= 252 -> 0
                        [] first_byte = 253 -> 2
                        [] first_byte = 254 -> 4
                        [] OTHER -> 8
             body == read_exact(first.rest, width)
         IN  IF width = 0 THEN Ok(ZeroExtend(first.value, 8), first.rest)
             ELSE IF ~body.ok THEN body
             ELSE Ok(ZeroExtend(body.value, 8), body.rest)

----------------------------------------------------------------------------
(* script.rs: Op and OpCodeType                                             *)

Push(v) == [op |-> "Push", data |-> v]

Code(c) == [op |-> "Code", code |-> c]

OpPushData1 == 76

OpPushData2 == 77

OpPushData4 == 78

OpReturn == 106

OpDup == 118

OpEqual == 135

OpEqualVerify == 136

OpHash160 == 169

OpCodeSeparator == 171

OpCheckSig == 172

FirstUndefinedOpCode == 188

OpInvalidOpcode == 255

\* the discriminants of OpCodeType
OpCodeTypes ==
    {0} \cup (OpPushData1 .. FirstUndefinedOpCode) \cup {240, 247, 250, 251, 253, 254, 255}

\* num::FromPrimitive::from_u8(code).unwrap_or(OpCodeType::OpInvalidOpcode)
from_u8(code) == IF code \in OpCodeTypes THEN code ELSE OpInvalidOpcode

\* Op::code (a Vec longer than 0xffff_ffff is unimplemented!())
Op_code(o) ==
    IF o.op = "Push"
    THEN LET len == Len(o.data) IN
         CASE len <= 75 -> len
           [] len <= 255 -> OpPushData1
           [] len <= 65535 -> OpPushData2
           [] OTHER -> OpPushData4
    ELSE o.code

\* the length field Op::write_to_stream writes after the code byte
push_len_field(len) ==
    CASE len <= 75 -> <<>>
      [] len <= 255 -> LeBytes(len, 1)
      [] len <= 65535 -> LeBytes(len, 2)
      [] OTHER -> LeBytes(len, 4)

\* a faulty variant: the OP_N short form is used whatever the flag says
Op_write_to_stream_always_op_n(o, is_minimal_push) ==
    IF o.op = "Push"
    THEN IF o.data = <<>> /\ ~is_minimal_push THEN <<76, 0>>
         ELSE IF Len(o.data) = 1 /\ o.data[1] > 0 /\ o.data[1] <= 16
              THEN <<o.data[1] + 80>>
         ELSE <<Op_code(o)>> \o push_len_field(Len(o.data)) \o o.data
    ELSE <<Op_code(o)>>

\* Op::write_to_stream(write, is_minimal_push): the bytes written
Op_write_to_stream(o, is_minimal_push) ==
    IF o.op = "Push"
    THEN IF o.data = <<>> /\ ~is_minimal_push THEN <<76, 0>>
         ELSE IF Len(o.data) = 1 /\ is_minimal_push /\ o.data[1] > 0 /\ o.data[1] <= 16
              THEN <<o.data[1] + 80>>
         ELSE <<Op_code(o)>> \o push_len_field(Len(o.data)) \o o.data
    ELSE <<Op_code(o)>>

----------------------------------------------------------------------------
(* script.rs: Script                                                        *)

Script_empty ==
    [ops |-> <<>>, is_minimal_push |-> TRUE, is_slp_safe |-> TRUE, serialized |-> None]

Script_new(ops) ==
    [ops |-> ops, is_minimal_push |-> TRUE, is_slp_safe |-> FALSE, serialized |-> None]

Script_new_non_minimal_push(ops) ==
    [ops |-> ops, is_minimal_push |-> FALSE, is_slp_safe |-> FALSE, serialized |-> None]

\* the while loop of Script::from_serialized: None, or Some of the ops and the
\* slp-safe flag.  idx is 0-based as in the source; data[idx] there is
\* data[idx + 1] here.
RECURSIVE parse_ops(_, _, _, _)
parse_ops(data, idx, ops, is_slp_safe) ==
    IF idx >= Len(data) THEN Some([ops |-> ops, is_slp_safe |-> is_slp_safe])
    ELSE LET byte == data[idx + 1] IN
         IF byte = 0
         THEN parse_ops(data, idx + 1, Append(ops, Push(<<>>)), FALSE)
         ELSE IF byte <= 75
         THEN LET n_bytes == byte
                  offset == idx + 1
              IN  IF offset + n_bytes > Len(data) THEN None
                  ELSE parse_ops(data, idx + n_bytes + 1,
                                 Append(ops, Push(Slice(data, offset, offset + n_bytes))),
                                 is_slp_safe)
         ELSE IF byte <= OpPushData4
         THEN LET offset == idx + 1
                  width == CASE byte = OpPushData1 -> 1
                             [] byte = OpPushData2 -> 2
                             [] OTHER -> 4
                  len_field == read_exact(Drop(data, offset), width)
              IN  IF ~len_field.ok THEN None
                  \* offset + n_bytes > data.len()
                  ELSE IF LeExceeds(len_field.value, Len(data) - offset) THEN None
                  ELSE LET n_bytes == LeValue(len_field.value) IN
                       parse_ops(data, idx + width + n_bytes + 1,
                                 Append(ops, Push(Slice(data, offset, offset + n_bytes))),
                                 is_slp_safe)
         ELSE LET code == Code(from_u8(byte)) IN
              parse_ops(data, idx + 1, Append(ops, code),
                        IF idx /= 0 /\ code /= Code(OpReturn) THEN FALSE ELSE is_slp_safe)

\* a faulty variant: the parsed script does not keep the bytes it was parsed from
from_serialized_no_cache(data) ==
    LET parsed == parse_ops(data, 0, <<>>, TRUE) IN
    IF parsed = None THEN None
    ELSE Some([ops |-> Unwrap(parsed).ops,
               is_minimal_push |-> TRUE,
               is_slp_safe |-> Unwrap(parsed).is_slp_safe,
               serialized |-> None])

\* Script::from_serialized(data): Option<Script>
from_serialized(data) ==
    LET parsed == parse_ops(data, 0, <<>>, TRUE) IN
    IF parsed = None THEN None
    ELSE Some([ops |-> Unwrap(parsed).ops,
               is_minimal_push |-> TRUE,
               is_slp_safe |-> Unwrap(parsed).is_slp_safe,
               serialized |-> Some(data)])

\* the serialization of a list of ops, one Op::write_to_stream after the other
write_ops(ops, is_minimal_push) ==
    Flatten([i \in 1 .. Len(ops) |-> Op_write_to_stream(ops[i], is_minimal_push)])

\* Script::to_vec
to_vec(s) ==
    IF IsSome(s.serialized) THEN Unwrap(s.serialized)
    ELSE write_ops(s.ops, s.is_minimal_push)

\* self.ops.iter().rposition(|op| op == &Op::Code(OpCodeSeparator)), 0-based
code_separator_pos(ops) ==
    LET at == {i \in 1 .. Len(ops) : ops[i] = Code(OpCodeSeparator)} IN
    IF at = {} THEN None
    ELSE Some((CHOOSE i \in at : \A j \in at : j <= i) - 1)

\* Script::to_vec_sig
to_vec_sig(s) ==
    LET pos == code_separator_pos(s.ops)
        kept == IF IsSome(pos) THEN Drop(s.ops, Unwrap(pos) + 1) ELSE s.ops
    IN  write_ops(kept, s.is_minimal_push)

\* a faulty variant: the op is put in front
add_op_in_front(s, o) == [s EXCEPT !.ops = <<o>> \o @]

\* Script::add_op
add_op(s, o) == [s EXCEPT !.ops = Append(@, o)]

\* Script::extend
extend(s, other) == [s EXCEPT !.ops = @ \o other.ops]

----------------------------------------------------------------------------
(* hash.rs: one-way digests, kept as a polynomial checksum spread over the  *)
(* digest's bytes                                                           *)

\* an order-sensitive checksum, computed over halves so that long inputs
\* need little nesting
RECURSIVE checksum(_, _)
checksum(bytes, salt) ==
    IF bytes = <<>> THEN salt
    ELSE IF Len(bytes) = 1 THEN (bytes[1] * 131 + salt + 7) % 65521
    ELSE LET half == Len(bytes) \div 2 IN
         (checksum(Take(bytes, half), salt) * 31
            + checksum(Drop(bytes, half), salt) * 17 + half) % 65521

\* double_sha256(data): [u8; 32]
double_sha256(bytes) ==
    LET h == checksum(bytes, 1) IN [i \in 1 .. 32 |-> (h \div i + 3 * i) % 256]

\* hash160(data): [u8; 20]
hash160(bytes) ==
    LET h == checksum(bytes, 2) IN [i \in 1 .. 20 |-> (h \div i + 5 * i) % 256]

----------------------------------------------------------------------------
(* tx.rs: the wire format                                                   *)

TxOutpoint(tx_hash, vout) == [tx_hash |-> tx_hash, vout |-> vout]

TxInput(outpoint, input_script, sequence) ==
    [outpoint |-> outpoint, script |-> input_script, sequence |-> sequence]

TxOutput(value, output_script) == [value |-> value, script |-> output_script]

Tx(version, inputs, outputs, lock_time) ==
    [version |-> version, inputs |-> inputs, outputs |-> outputs, lock_time |-> lock_time]

\* TxInput::write_to_stream
TxInput_write_to_stream(input) ==
    LET bytes == to_vec(input.script) IN
    input.outpoint.tx_hash \o input.outpoint.vout
        \o write_var_int(U64(Len(bytes))) \o bytes \o input.sequence

\* TxOutput::write_to_stream
TxOutput_write_to_stream(output) ==
    LET bytes == to_vec(output.script) IN
    output.value \o write_var_int(U64(Len(bytes))) \o bytes

\* the outputs written one after the other
write_outputs(outputs) ==
    Flatten([i \in 1 .. Len(outputs) |-> TxOutput_write_to_stream(outputs[i])])

\* Tx::write_to_stream
Tx_write_to_stream(t) ==
    t.version
        \o write_var_int(U64(Len(t.inputs)))
        \o Flatten([i \in 1 .. Len(t.inputs) |-> TxInput_write_to_stream(t.inputs[i])])
        \o write_var_int(U64(Len(t.outputs)))
        \o write_outputs(t.outputs)
        \o t.lock_time

\* let mut script = vec![0; script_len as usize]; read.read_exact(&mut script[..])
read_script_bytes(read) ==
    LET script_len == read_var_int(read) IN
    IF ~script_len.ok THEN script_len
    ELSE IF LeExceeds(script_len.value, Len(script_len.rest)) THEN Err("UnexpectedEof")
    ELSE read_exact(script_len.rest, LeValue(script_len.value))

\* Script::from_serialized(&script).ok_or_else(|| InvalidData)
parse_script(bytes) ==
    LET parsed == from_serialized(bytes) IN
    IF parsed = None THEN Err("InvalidData") ELSE Ok(Unwrap(parsed), <<>>)

\* TxInput::read_from_stream
TxInput_read_from_stream(read) ==
    LET tx_hash == read_exact(read, 32) IN
    IF ~tx_hash.ok THEN tx_hash ELSE
    LET vout == read_exact(tx_hash.rest, 4) IN
    IF ~vout.ok THEN vout ELSE
    LET bytes == read_script_bytes(vout.rest) IN
    IF ~bytes.ok THEN bytes ELSE
    LET sequence == read_exact(bytes.rest, 4) IN
    IF ~sequence.ok THEN sequence ELSE
    LET parsed == parse_script(bytes.value) IN
    IF ~parsed.ok THEN parsed ELSE
    Ok(TxInput(TxOutpoint(tx_hash.value, vout.value), parsed.value, sequence.value),
       sequence.rest)

\* TxOutput::read_from_stream
TxOutput_read_from_stream(read) ==
    LET value == read_exact(read, 8) IN
    IF ~value.ok THEN value ELSE
    LET bytes == read_script_bytes(value.rest) IN
    IF ~bytes.ok THEN bytes ELSE
    LET parsed == parse_script(bytes.value) IN
    IF ~parsed.ok THEN parsed ELSE
    Ok(TxOutput(value.value, parsed.value), bytes.rest)

\* for _ in 0..num_inputs { inputs.push(TxInput::read_from_stream(read)?) }
RECURSIVE read_inputs(_, _, _)
read_inputs(read, count, inputs) ==
    IF count = 0 THEN Ok(inputs, read)
    ELSE LET input == TxInput_read_from_stream(read) IN
         IF ~input.ok THEN input
         ELSE read_inputs(input.rest, count - 1, Append(inputs, input.value))

\* for _ in 0..num_outputs { outputs.push(TxOutput::read_from_stream(read)?) }
RECURSIVE read_outputs(_, _, _)
read_outputs(read, count, outputs) ==
    IF count = 0 THEN Ok(outputs, read)
    ELSE LET output == TxOutput_read_from_stream(read) IN
         IF ~output.ok THEN output
         ELSE read_outputs(output.rest, count - 1, Append(outputs, output.value))

\* the number of rounds of a `for _ in 0..count` loop that reads from `read`:
\* every round consumes a byte or fails, so rounds past Len(read) + 1 never run
rounds(count, read) ==
    IF LeExceeds(count, Len(read)) THEN Len(read) + 1 ELSE LeValue(count)

\* a faulty variant: the lock time is read but not kept
Tx_read_from_stream_drops_lock_time(read) ==
    LET version == read_exact(read, 4) IN
    IF ~version.ok THEN version ELSE
    LET num_inputs == read_var_int(version.rest) IN
    IF ~num_inputs.ok THEN num_inputs ELSE
    LET inputs == read_inputs(num_inputs.rest, rounds(num_inputs.value, num_inputs.rest), <<>>) IN
    IF ~inputs.ok THEN inputs ELSE
    LET num_outputs == read_var_int(inputs.rest) IN
    IF ~num_outputs.ok THEN num_outputs ELSE
    LET outputs == read_outputs(num_outputs.rest,
                                rounds(num_outputs.value, num_outputs.rest), <<>>) IN
    IF ~outputs.ok THEN outputs ELSE
    LET lock_time == read_exact(outputs.rest, 4) IN
    IF ~lock_time.ok THEN lock_time ELSE
    Ok(Tx(version.value, inputs.value, outputs.value, Zeros(4)), lock_time.rest)

\* Tx::read_from_stream
Tx_read_from_stream(read) ==
    LET version == read_exact(read, 4) IN
    IF ~version.ok THEN version ELSE
    LET num_inputs == read_var_int(version.rest) IN
    IF ~num_inputs.ok THEN num_inputs ELSE
    LET inputs == read_inputs(num_inputs.rest, rounds(num_inputs.value, num_inputs.rest), <<>>) IN
    IF ~inputs.ok THEN inputs ELSE
    LET num_outputs == read_var_int(inputs.rest) IN
    IF ~num_outputs.ok THEN num_outputs ELSE
    LET outputs == read_outputs(num_outputs.rest,
                                rounds(num_outputs.value, num_outputs.rest), <<>>) IN
    IF ~outputs.ok THEN outputs ELSE
    LET lock_time == read_exact(outputs.rest, 4) IN
    IF ~lock_time.ok THEN lock_time ELSE
    Ok(Tx(version.value, inputs.value, outputs.value, lock_time.value), lock_time.rest)

----------------------------------------------------------------------------
(* A call either returns a value or panics                                  *)

Panic == [panic |-> TRUE]

Return(v) == [panic |-> FALSE, value |-> v]

----------------------------------------------------------------------------
(* outputs.rs: the Output variants P2PKHOutput, P2SHOutput, OpReturnOutput  *)

\* `address` is Address::bytes(), the 20-byte hash
P2PKHOutput(value, address) == [kind |-> "P2PKH", value |-> value, address |-> address]

P2SHOutput(output) == [kind |-> "P2SH", output |-> output]

OpReturnOutput(pushes, is_minimal_push) ==
    [kind |-> "OpReturn", pushes |-> pushes, is_minimal_push |-> is_minimal_push]

\* Output::value
RECURSIVE Output_value(_)
Output_value(o) ==
    CASE o.kind = "P2PKH" -> o.value
      [] o.kind = "P2SH" -> Output_value(o.output)
      [] o.kind = "OpReturn" -> Zeros(8)

\* Output::script
RECURSIVE Output_script(_)
Output_script(o) ==
    CASE o.kind = "P2PKH" ->
            Script_new(<<Code(OpDup), Code(OpHash160), Push(o.address),
                         Code(OpEqualVerify), Code(OpCheckSig)>>)
      [] o.kind = "P2SH" ->
            Script_new(<<Code(OpHash160),
                         Push(hash160(to_vec(Output_script(o.output)))),
                         Code(OpEqual)>>)
      [] o.kind = "OpReturn" ->
            LET script_ops ==
                    <<Code(OpReturn)>> \o [i \in 1 .. Len(o.pushes) |-> Push(o.pushes[i])]
            IN  IF o.is_minimal_push THEN Script_new(script_ops)
                ELSE Script_new_non_minimal_push(script_ops)

\* a faulty variant: an OP_RETURN output hands out its locking script
Output_script_code_of_op_return(o) ==
    CASE o.kind = "P2PKH" -> Return(Output_script(o))
      [] o.kind = "P2SH" -> Return(Output_script(o.output))
      [] o.kind = "OpReturn" -> Return(Output_script(o))

\* Output::script_code
Output_script_code(o) ==
    CASE o.kind = "P2PKH" -> Return(Output_script(o))
      [] o.kind = "P2SH" -> Return(Output_script(o.output))
      [] o.kind = "OpReturn" -> Panic

\* Output::sig_script
RECURSIVE Output_sig_script(_, _, _, _, _)
Output_sig_script(o, serialized_sig, serialized_pub_key, pre_image, outputs) ==
    CASE o.kind = "P2PKH" ->
            Return(Script_new(<<Push(serialized_sig), Push(serialized_pub_key)>>))
      [] o.kind = "P2SH" ->
            LET inner == Output_sig_script(o.output, serialized_sig, serialized_pub_key,
                                           pre_image, outputs)
            IN  IF inner.panic THEN Panic
                ELSE Return(add_op(inner.value, Push(to_vec(Output_script(o.output)))))
      [] o.kind = "OpReturn" -> Panic

\* Output::to_output
to_output(o) == TxOutput(Output_value(o), Output_script(o))

----------------------------------------------------------------------------
(* unsigned_tx.rs: PreImage and UnsignedTx                                  *)

MAX_SIGNATURE_SIZE == 73

PUBKEY_SIZE == 33

UnsignedInput(outpoint, output, sequence) ==
    [outpoint |-> outpoint, output |-> output, sequence |-> sequence]

\* UnsignedTx::new_simple / new_locktime
new_locktime(lock_time) ==
    [version |-> LeBytes(1, 4), inputs |-> <<>>, outputs |-> <<>>, lock_time |-> lock_time]

new_simple == new_locktime(Zeros(4))

\* Vec::insert / Vec::remove / Vec index assignment, 0-based
InsertAt(s, idx, x) == Take(s, idx) \o <<x>> \o Drop(s, idx)

RemoveAt(s, idx) == Take(s, idx) \o Drop(s, idx + 1)

ReplaceAt(s, idx, x) == [s EXCEPT ![idx + 1] = x]

\* PreImage::empty
PreImage_empty(script_code) ==
    [version |-> Zeros(4), hash_prevouts |-> Zeros(32), hash_sequence |-> Zeros(32),
     outpoint |-> TxOutpoint(Zeros(32), Zeros(4)), script_code |-> script_code,
     value |-> Zeros(8), sequence |-> Zeros(4), hash_outputs |-> Zeros(32),
     lock_time |-> Zeros(4), sighash_type |-> Zeros(4)]

\* a faulty variant: hashPrevouts covers only the first input's outpoint
pre_images_first_outpoint_only(t, sighash_type) ==
    LET n == Len(t.inputs)
        hash_prevouts == double_sha256(
            Flatten([i \in 1 .. (IF n > 0 THEN 1 ELSE 0) |->
                        t.inputs[i].outpoint.tx_hash \o t.inputs[i].outpoint.vout]))
        hash_sequence == double_sha256(Flatten([i \in 1 .. n |-> t.inputs[i].sequence]))
        hash_outputs == double_sha256(write_outputs(t.outputs))
        script_codes == [i \in 1 .. n |-> Output_script_code(t.inputs[i].output)]
    IN  IF \E i \in 1 .. n : script_codes[i].panic THEN Panic
        ELSE Return([i \in 1 .. n |->
                [version |-> t.version, hash_prevouts |-> hash_prevouts,
                 hash_sequence |-> hash_sequence, outpoint |-> t.inputs[i].outpoint,
                 script_code |-> script_codes[i].value,
                 value |-> Output_value(t.inputs[i].output),
                 sequence |-> t.inputs[i].sequence, hash_outputs |-> hash_outputs,
                 lock_time |-> t.lock_time, sighash_type |-> sighash_type]])

\* UnsignedTx::pre_images
pre_images(t, sighash_type) ==
    LET n == Len(t.inputs)
        hash_prevouts == double_sha256(
            Flatten([i \in 1 .. n |->
                        t.inputs[i].outpoint.tx_hash \o t.inputs[i].outpoint.vout]))
        hash_sequence == double_sha256(Flatten([i \in 1 .. n |-> t.inputs[i].sequence]))
        hash_outputs == double_sha256(write_outputs(t.outputs))
        script_codes == [i \in 1 .. n |-> Output_script_code(t.inputs[i].output)]
    IN  IF \E i \in 1 .. n : script_codes[i].panic THEN Panic
        ELSE Return([i \in 1 .. n |->
                [version |-> t.version, hash_prevouts |-> hash_prevouts,
                 hash_sequence |-> hash_sequence, outpoint |-> t.inputs[i].outpoint,
                 script_code |-> script_codes[i].value,
                 value |-> Output_value(t.inputs[i].output),
                 sequence |-> t.inputs[i].sequence, hash_outputs |-> hash_outputs,
                 lock_time |-> t.lock_time, sighash_type |-> sighash_type]])

\* the witness estimate_size builds for one input, from placeholder bytes
placeholder_sig_script(t, input, sig_size) ==
    LET script_code == Output_script_code(input.output) IN
    IF script_code.panic THEN Panic
    ELSE Output_sig_script(input.output, Zeros(sig_size), Zeros(PUBKEY_SIZE),
                           PreImage_empty(script_code.value), t.outputs)

\* a faulty variant: the placeholder signature leaves no room for a signature
estimate_size_empty_sig(t) ==
    LET n == Len(t.inputs)
        scripts == [i \in 1 .. n |-> placeholder_sig_script(t, t.inputs[i], 0)]
    IN  IF \E i \in 1 .. n : scripts[i].panic THEN Panic
        ELSE LET tx_inputs == [i \in 1 .. n |->
                     TxInput(t.inputs[i].outpoint, scripts[i].value, t.inputs[i].sequence)]
             IN  Return(Len(Tx_write_to_stream(
                                Tx(t.version, tx_inputs, t.outputs, t.lock_time))) + 2)

\* UnsignedTx::estimate_size
estimate_size(t) ==
    LET n == Len(t.inputs)
        scripts == [i \in 1 .. n |-> placeholder_sig_script(t, t.inputs[i], MAX_SIGNATURE_SIZE)]
    IN  IF \E i \in 1 .. n : scripts[i].panic THEN Panic
        ELSE LET tx_inputs == [i \in 1 .. n |->
                     TxInput(t.inputs[i].outpoint, scripts[i].value, t.inputs[i].sequence)]
             IN  Return(Len(Tx_write_to_stream(
                                Tx(t.version, tx_inputs, t.outputs, t.lock_time))) + 2)

\* .sum::<u64>(): the wrapped sum and whether an addition overflowed
RECURSIVE sum_u64(_)
sum_u64(values) ==
    IF values = <<>> THEN [value |-> Zeros(8), overflow |-> FALSE]
    ELSE LET n == Len(values)
             front == sum_u64(Take(values, n - 1))
             total == LeAdd(front.value, values[n])
         IN  [value |-> total.value, overflow |-> front.overflow \/ total.overflow]

\* tx_size as u64 * fee_per_kb / 1000
fee_for(tx_size, fee_per_kb) ==
    LET product == LeMul(U64(tx_size), fee_per_kb) IN
    [value |-> LeDivSmall(product.value, 1000), overflow |-> product.overflow]

\* what insert_leftover_output returns: Result<Option<usize>, u64>, or a panic
Shortfall(amount) == [tag |-> "Err", amount |-> amount]

NoLeftover == [tag |-> "OkNone"]

Leftover(idx) == [tag |-> "OkSome", idx |-> idx]

Aborted == [tag |-> "Panic"]

\* a faulty variant: the change is paid to the all-zero address
leftover_output_to_zero_address(value, leftover_addr) ==
    to_output(P2PKHOutput(value, Zeros(20)))

\* the placeholder / final leftover output of insert_leftover_output
leftover_output(value, leftover_addr) == to_output(P2PKHOutput(value, leftover_addr))

\* UnsignedTx::insert_leftover_output: the transaction it leaves and what it
\* returns.  `checks` is the build's overflow checking: with it an arithmetic
\* overflow panics, without it the result wraps modulo 2^64.
insert_leftover_output(t, leftover_idx, leftover_addr, fee_per_kb, dust_limit, checks) ==
    LET total_output_amount == sum_u64([i \in 1 .. Len(t.outputs) |-> t.outputs[i].value])
        tx_size_without == estimate_size(t)
        inserted == [t EXCEPT !.outputs =
                        InsertAt(@, leftover_idx, leftover_output(Fill(8, 255), leftover_addr))]
        removed == [inserted EXCEPT !.outputs = RemoveAt(@, leftover_idx)]
        tx_size == estimate_size(inserted)
        fee == fee_for(tx_size.value, fee_per_kb)
        fee_without == fee_for(tx_size_without.value, fee_per_kb)
        total_input_amount ==
            sum_u64([i \in 1 .. Len(t.inputs) |-> Output_value(t.inputs[i].output)])
        total_spent == LeAdd(total_output_amount.value, fee.value)
        total_spent_without == LeAdd(total_output_amount.value, fee_without.value)
        shortfall == LeSub(total_spent.value, total_input_amount.value)
        change == LeSub(total_input_amount.value, total_spent.value)
    IN  IF (checks /\ total_output_amount.overflow) \/ tx_size_without.panic
        THEN [utx |-> t, ret |-> Aborted]
        ELSE IF tx_size.panic
                \/ (checks /\ (fee.overflow \/ fee_without.overflow
                               \/ total_input_amount.overflow
                               \/ total_spent.overflow \/ total_spent_without.overflow))
        THEN [utx |-> inserted, ret |-> Aborted]
        ELSE IF LeLess(total_input_amount.value, total_spent_without.value)
        THEN IF checks /\ shortfall.overflow THEN [utx |-> removed, ret |-> Aborted]
             ELSE [utx |-> removed, ret |-> Shortfall(shortfall.value)]
        ELSE IF LeLess(LeSub(total_input_amount.value, total_spent_without.value).value,
                       dust_limit)
        THEN [utx |-> removed, ret |-> NoLeftover]
        ELSE IF checks /\ change.overflow THEN [utx |-> inserted, ret |-> Aborted]
        ELSE [utx |-> [inserted EXCEPT !.outputs =
                          ReplaceAt(@, leftover_idx,
                                    leftover_output(change.value, leftover_addr))],
              ret |-> Leftover(leftover_idx)]

\* UnsignedTx::add_leftover_output
add_leftover_output(t, leftover_addr, fee_per_kb, dust_limit, checks) ==
    insert_leftover_output(t, Len(t.outputs), leftover_addr, fee_per_kb, dust_limit, checks)

Min(a, b) == IF a <= b THEN a ELSE b

\* UnsignedTx::sign: zip stops at the shortest of inputs, signatures, public
\* keys and pre-images
sign(t, serialized_signatures, serialized_pub_keys) ==
    LET sighash_type == LeBytes(65, 4)
        images == pre_images(t, sighash_type)
    IN  IF images.panic THEN Panic
        ELSE LET n == Min(Min(Len(t.inputs), Len(serialized_signatures)),
                          Min(Len(serialized_pub_keys), Len(images.value)))
                 scripts == [i \in 1 .. n |->
                     Output_sig_script(t.inputs[i].output,
                                       Append(serialized_signatures[i], sighash_type[1]),
                                       serialized_pub_keys[i], images.value[i], t.outputs)]
             IN  IF \E i \in 1 .. n : scripts[i].panic THEN Panic
                 ELSE Return(Tx(t.version,
                                [i \in 1 .. n |-> TxInput(t.inputs[i].outpoint, scripts[i].value,
                                                          t.inputs[i].sequence)],
                                t.outputs, t.lock_time))

----------------------------------------------------------------------------
(* The builder as a state machine: an UnsignedTx is created empty, edited   *)
(* by any sequence of add / insert / replace / remove calls, and then given *)
(* a leftover output.                                                       *)

MaxInputs == 2

MaxOutputs == 2

LeftoverAddresses == {Fill(20, 204)}

LockTimes == {LeBytes(500000, 4)}

\* spendable outputs: a P2PKH of 170, a P2SH-wrapped P2PKH of 4300, and an
\* OP_RETURN (which cannot be signed)
InputChoices ==
    {UnsignedInput(TxOutpoint(Fill(32, 17), Zeros(4)),
                   P2PKHOutput(U64(170), Fill(20, 170)), Fill(4, 255)),
     UnsignedInput(TxOutpoint(Fill(32, 34), LeBytes(1, 4)),
                   P2SHOutput(P2PKHOutput(U64(4300), Fill(20, 187))), Zeros(4)),
     UnsignedInput(TxOutpoint(Fill(32, 51), LeBytes(2, 4)),
                   OpReturnOutput(<<>>, TRUE), Fill(4, 255))}

\* outputs to create: a P2PKH payment, an OP_RETURN envelope with an empty
\* push, a one-byte push and a push long enough for OP_PUSHDATA1, and a P2SH
OutputChoices ==
    {to_output(P2PKHOutput(U64(3000), Fill(20, 170))),
     to_output(OpReturnOutput(<<<<>>, <<2>>, Fill(76, 171)>>, FALSE)),
     to_output(P2SHOutput(P2PKHOutput(U64(600), Fill(20, 187))))}

FeeRates == {U64(1000), U64(20000)}

DustLimits == {U64(0), U64(546)}

\* signatures as the caller passes them, without the sighash byte
Signatures == {<<7>>, Fill(72, 48)}

PubKeys == {Fill(33, 2)}

SighashTypes == {LeBytes(65, 4)}

\* res before any call whose result is recorded
NoResult == [call |-> "none", panicked |-> FALSE]

\* a run is a sequence of edits of the builder that ends with the one call
\* whose result is recorded
Running == res = NoResult

InitBuilder ==
    /\ utx \in {new_simple} \cup {new_locktime(l) : l \in LockTimes}
    /\ res = NoResult
    /\ overflow_checks \in BOOLEAN

IdleBuilder ==
    /\ utx = new_simple
    /\ res = NoResult
    /\ overflow_checks = FALSE

add_input(input) ==
    /\ Running
    /\ Len(utx.inputs) < MaxInputs
    /\ utx' = [utx EXCEPT !.inputs = Append(@, input)]
    /\ res' = NoResult
    /\ UNCHANGED overflow_checks

replace_input(idx, input) ==
    /\ Running
    /\ idx < Len(utx.inputs)
    /\ utx' = [utx EXCEPT !.inputs = ReplaceAt(@, idx, input)]
    /\ res' = NoResult
    /\ UNCHANGED overflow_checks

add_output(output) ==
    /\ Running
    /\ Len(utx.outputs) < MaxOutputs
    /\ utx' = [utx EXCEPT !.outputs = Append(@, output)]
    /\ res' = NoResult
    /\ UNCHANGED overflow_checks

insert_output(idx, output) ==
    /\ Running
    /\ Len(utx.outputs) < MaxOutputs
    /\ idx <= Len(utx.outputs)
    /\ utx' = [utx EXCEPT !.outputs = InsertAt(@, idx, output)]
    /\ res' = NoResult
    /\ UNCHANGED overflow_checks

replace_output(idx, output) ==
    /\ Running
    /\ idx < Len(utx.outputs)
    /\ utx' = [utx EXCEPT !.outputs = ReplaceAt(@, idx, output)]
    /\ res' = NoResult
    /\ UNCHANGED overflow_checks

remove_output(idx) ==
    /\ Running
    /\ idx < Len(utx.outputs)
    /\ utx' = [utx EXCEPT !.outputs = RemoveAt(@, idx)]
    /\ res' = NoResult
    /\ UNCHANGED overflow_checks

\* the record of a leftover call: the transaction before it, the arguments
\* and the result
LeftoverCall(name, leftover_idx, leftover_addr, fee_per_kb, dust_limit, out) ==
    [call |-> name, panicked |-> out.ret = Aborted, before |-> utx,
     leftover_idx |-> leftover_idx, leftover_addr |-> leftover_addr,
     fee_per_kb |-> fee_per_kb, dust_limit |-> dust_limit, ret |-> out.ret]

InsertLeftoverOutput(leftover_idx, leftover_addr, fee_per_kb, dust_limit) ==
    /\ Running
    /\ Len(utx.outputs) < MaxOutputs
    /\ leftover_idx <= Len(utx.outputs)
    /\ LET out == insert_leftover_output(utx, leftover_idx, leftover_addr,
                                         fee_per_kb, dust_limit, overflow_checks)
       IN  /\ utx' = out.utx
           /\ res' = LeftoverCall("insert_leftover_output", leftover_idx, leftover_addr,
                                  fee_per_kb, dust_limit, out)
    /\ UNCHANGED overflow_checks

AddLeftoverOutput(leftover_addr, fee_per_kb, dust_limit) ==
    /\ Running
    /\ Len(utx.outputs) < MaxOutputs
    /\ LET out == add_leftover_output(utx, leftover_addr, fee_per_kb, dust_limit,
                                      overflow_checks)
       IN  /\ utx' = out.utx
           /\ res' = LeftoverCall("add_leftover_output", Len(utx.outputs), leftover_addr,
                                  fee_per_kb, dust_limit, out)
    /\ UNCHANGED overflow_checks

IdleScript == sc_data = <<>> /\ sc_script = <<>>

IdleOp == op_push = Push(<<>>) /\ op_flag = FALSE /\ op_bytes = <<>>

IdleVarInt == vi_number = Zeros(8) /\ vi_stream = <<>> /\ vi_read = <<>>

IdleCall == fn_call = <<>> /\ fn_ret = <<>>

Init == InitBuilder /\ IdleScript /\ IdleOp /\ IdleVarInt /\ IdleCall

NextBuilder ==
    \/ \E input \in InputChoices : add_input(input)
    \/ \E idx \in 0 .. MaxInputs, input \in InputChoices : replace_input(idx, input)
    \/ \E output \in OutputChoices : add_output(output)
    \/ \E idx \in 0 .. MaxOutputs, output \in OutputChoices : insert_output(idx, output)
    \/ \E idx \in 0 .. MaxOutputs, output \in OutputChoices : replace_output(idx, output)
    \/ \E idx \in 0 .. MaxOutputs : remove_output(idx)
    \/ \E idx \in 0 .. MaxOutputs, addr \in LeftoverAddresses,
          fee_per_kb \in FeeRates, dust_limit \in DustLimits :
            InsertLeftoverOutput(idx, addr, fee_per_kb, dust_limit)
    \/ \E addr \in LeftoverAddresses, fee_per_kb \in FeeRates, dust_limit \in DustLimits :
            AddLeftoverOutput(addr, fee_per_kb, dust_limit)

Next ==
    NextBuilder /\ UNCHANGED <<sc_data, sc_script, op_push, op_flag, op_bytes,
                               vi_number, vi_stream, vi_read, fn_call, fn_ret>>

Spec == Init /\ [][Next]_vars

\* a leftover call was made and its result recorded
LeftoverCalled == res.call \in {"insert_leftover_output", "add_leftover_output"}

\* no input is an OP_RETURN output, which has no script_code
Signable(t) == \A i \in 1 .. Len(t.inputs) : ~Output_script_code(t.inputs[i].output).panic

\* the exact sum of u64 amounts, on nine digits
RECURSIVE WideSum(_)
WideSum(values) ==
    IF values = <<>> THEN Zeros(9)
    ELSE LeAdd(ZeroExtend(Head(values), 9), WideSum(Tail(values))).value

\* the exact sum of amounts below 2^31
RECURSIVE SmallSum(_)
SmallSum(values) ==
    IF values = <<>> THEN 0 ELSE LeValue(Head(values)) + SmallSum(Tail(values))

InputValues(t) == [i \in 1 .. Len(t.inputs) |-> Output_value(t.inputs[i].output)]

OutputValues(t) == [i \in 1 .. Len(t.outputs) |-> t.outputs[i].value]

\* tx_size * fee_per_kb / 1000 in exact arithmetic
ExactFee(t, fee_per_kb) == (estimate_size(t).value * LeValue(fee_per_kb)) \div 1000

\* C1: whenever a leftover call returns Ok(Some(idx)), the input values sum
\* to the output values, change included, plus the fee, the fee being
\* estimate_size() * fee_per_kb / 1000 measured with the change present.
C1_LeftoverBalance ==
    (LeftoverCalled /\ res.ret.tag = "OkSome") =>
        WideSum(InputValues(utx))
            = LeAdd(WideSum(OutputValues(utx)),
                    LeBytes(ExactFee(utx, res.fee_per_kb), 9)).value

\* C2: a leftover call returns Err(spent - in) exactly when spent_without > in,
\* otherwise Ok(None) exactly when in - spent_without < dust_limit, and
\* otherwise Ok(Some(idx)) with idx the requested position.
C2_LeftoverOutcome ==
    (LeftoverCalled /\ Signable(res.before)) =>
        LET before == res.before
            with_change == [before EXCEPT !.outputs =
                               InsertAt(@, res.leftover_idx,
                                        leftover_output(Zeros(8), res.leftover_addr))]
            in == SmallSum(InputValues(before))
            spent_without == SmallSum(OutputValues(before)) + ExactFee(before, res.fee_per_kb)
            spent == SmallSum(OutputValues(before)) + ExactFee(with_change, res.fee_per_kb)
        IN  res.ret = IF spent_without > in THEN Shortfall(LeBytes(spent - in, 8))
                      ELSE IF in - spent_without < LeValue(res.dust_limit) THEN NoLeftover
                      ELSE Leftover(res.leftover_idx)

\* the bytes of a P2PKH locking script: OP_DUP OP_HASH160 <20 bytes>
\* OP_EQUALVERIFY OP_CHECKSIG
PaysTo(output, address) ==
    to_vec(output.script) = <<118, 169, 20>> \o address \o <<136, 172>>

C28_ChangeAtLeastDust ==
    (LeftoverCalled /\ res.ret.tag = "OkSome") =>
        LET in == SmallSum(InputValues(res.before))
            spent == SmallSum(OutputValues(res.before)) + ExactFee(utx, res.fee_per_kb)
            change == utx.outputs[res.ret.idx + 1].value
        IN  /\ ~LeLess(change, res.dust_limit)
            /\ in - spent >= 0
            /\ change = LeBytes(in - spent, 8)
            /\ change /= Fill(8, 255)

----------------------------------------------------------------------------
(* pre_images, estimate_size and sign read the builder and leave it alone:   *)
(* they are applied to every transaction the edits above can build.          *)

BuiltTxs ==
    {[t EXCEPT !.inputs = inputs, !.outputs = outputs] :
        t \in {new_simple} \cup {new_locktime(l) : l \in LockTimes},
        inputs \in ListsUpTo(InputChoices, MaxInputs),
        outputs \in ListsUpTo(OutputChoices, MaxOutputs)}

PreImages(sighash_type) ==
    /\ Running
    /\ LET images == pre_images(utx, sighash_type) IN
       res' = IF images.panic THEN [call |-> "pre_images", panicked |-> TRUE]
              ELSE [call |-> "pre_images", panicked |-> FALSE,
                    sighash_type |-> sighash_type, ret |-> images.value]
    /\ UNCHANGED <<utx, overflow_checks>>

EstimateSize ==
    /\ Running
    /\ LET size == estimate_size(utx) IN
       res' = IF size.panic THEN [call |-> "estimate_size", panicked |-> TRUE]
              ELSE [call |-> "estimate_size", panicked |-> FALSE, ret |-> size.value]
    /\ UNCHANGED <<utx, overflow_checks>>

Sign(serialized_signatures, serialized_pub_keys) ==
    /\ Running
    /\ LET signed == sign(utx, serialized_signatures, serialized_pub_keys) IN
       res' = IF signed.panic THEN [call |-> "sign", panicked |-> TRUE]
              ELSE [call |-> "sign", panicked |-> FALSE,
                    serialized_signatures |-> serialized_signatures,
                    serialized_pub_keys |-> serialized_pub_keys, ret |-> signed.value]
    /\ UNCHANGED <<utx, overflow_checks>>

\* the lists a caller may pass to sign: any number of signatures, and keys for
\* all inputs or for all but one
SignatureLists == {Fill(n, sig) : n \in 0 .. MaxInputs, sig \in Signatures}

PubKeyLists == {Fill(n, key) : n \in MaxInputs - 1 .. MaxInputs, key \in PubKeys}

InitSign ==
    /\ utx \in BuiltTxs
    /\ res = NoResult
    /\ overflow_checks = FALSE
    /\ IdleScript /\ IdleOp /\ IdleVarInt /\ IdleCall

NextSign ==
    /\ \/ \E sighash_type \in SighashTypes : PreImages(sighash_type)
       \/ EstimateSize
       \/ \E sigs \in SignatureLists, keys \in PubKeyLists : Sign(sigs, keys)
    /\ UNCHANGED <<sc_data, sc_script, op_push, op_flag, op_bytes,
                   vi_number, vi_stream, vi_read, fn_call, fn_ret>>

SpecSign == InitSign /\ [][NextSign]_vars

Signed == res.call = "sign" /\ ~res.panicked

\* the length of the wire serialization of a Tx
WireLen(t) == Len(Tx_write_to_stream(t))

\* C3: with signable inputs, signatures of at most 72 bytes before the sighash
\* byte and public keys of 33 bytes, estimate_size() is at least the length
\* of the wire serialization of the Tx that sign returns.
C3_EstimateBoundsSigned ==
    (/\ Signed
     /\ \A i \in 1 .. Len(res.serialized_signatures) :
            Len(res.serialized_signatures[i]) <= 72
     /\ \A i \in 1 .. Len(res.serialized_pub_keys) :
            Len(res.serialized_pub_keys[i]) = 33)
        => estimate_size(utx).value >= WireLen(res.ret)

\* C3 witness: two inputs were signed with 72-byte signatures, and the
\* estimate exceeds the signed length by its two bytes of slack only
C3_Witness_FullSignatures ==
    /\ Signed
    /\ Len(utx.inputs) = 2
    /\ Len(res.ret.inputs) = 2
    /\ \A i \in 1 .. 2 : Len(res.serialized_signatures[i]) = 72
    /\ estimate_size(utx).value = WireLen(res.ret) + 2

\* C4: whatever lists are passed, the Tx sign returns has one input per
\* UnsignedInput, in order, each with that input's outpoint and sequence and
\* the witness sig_script builds from sigs[i] and 0x41, pub_keys[i] and the
\* i-th pre-image; outputs, version and lock_time are the builder's.
C4_SignPairsInputs ==
    Signed =>
        LET sigs == res.serialized_signatures
            keys == res.serialized_pub_keys
            images == pre_images(utx, LeBytes(65, 4)).value
        IN  /\ Len(res.ret.inputs) = Len(utx.inputs)
            /\ \A i \in 1 .. Len(res.ret.inputs) :
                /\ i <= Len(sigs) /\ i <= Len(keys)
                /\ res.ret.inputs[i] =
                      TxInput(utx.inputs[i].outpoint,
                              Output_sig_script(utx.inputs[i].output, sigs[i] \o <<65>>,
                                                keys[i], images[i], utx.outputs).value,
                              utx.inputs[i].sequence)
            /\ res.ret.outputs = utx.outputs
            /\ res.ret.version = utx.version
            /\ res.ret.lock_time = utx.lock_time

RECURSIVE OutpointsInOrder(_)
OutpointsInOrder(inputs) ==
    IF inputs = <<>> THEN <<>>
    ELSE Head(inputs).outpoint.tx_hash \o Head(inputs).outpoint.vout
            \o OutpointsInOrder(Tail(inputs))

RECURSIVE SequencesInOrder(_)
SequencesInOrder(inputs) ==
    IF inputs = <<>> THEN <<>> ELSE Head(inputs).sequence \o SequencesInOrder(Tail(inputs))

RECURSIVE OutputsInOrder(_)
OutputsInOrder(outputs) ==
    IF outputs = <<>> THEN <<>>
    ELSE Head(outputs).value \o write_var_int(U64(Len(to_vec(Head(outputs).script))))
            \o to_vec(Head(outputs).script) \o OutputsInOrder(Tail(outputs))

\* C5: pre_images returns one PreImage per input, in input order, the i-th
\* with the i-th input's outpoint, sequence, spent value and script_code, and
\* all with the version, lock_time and sighash_type of the call and the
\* digests of all outpoints, all sequences and all outputs in list order.
C5_PreImages ==
    (res.call = "pre_images" /\ ~res.panicked) =>
        /\ Len(res.ret) = Len(utx.inputs)
        /\ \A i \in 1 .. Len(res.ret) :
            /\ res.ret[i].outpoint = utx.inputs[i].outpoint
            /\ res.ret[i].sequence = utx.inputs[i].sequence
            /\ res.ret[i].value = Output_value(utx.inputs[i].output)
            /\ res.ret[i].script_code = Output_script_code(utx.inputs[i].output).value
            /\ res.ret[i].hash_prevouts = double_sha256(OutpointsInOrder(utx.inputs))
            /\ res.ret[i].hash_sequence = double_sha256(SequencesInOrder(utx.inputs))
            /\ res.ret[i].hash_outputs = double_sha256(OutputsInOrder(utx.outputs))
            /\ res.ret[i].version = utx.version
            /\ res.ret[i].lock_time = utx.lock_time
            /\ res.ret[i].sighash_type = res.sighash_type

\* C5 witness: pre-images were taken of two different inputs spending to two
\* outputs
C5_Witness_TwoInputs ==
    /\ res.call = "pre_images" /\ ~res.panicked
    /\ Len(res.ret) = 2
    /\ res.ret[1].outpoint /= res.ret[2].outpoint
    /\ res.ret[1].script_code /= res.ret[2].script_code
    /\ Len(utx.outputs) = 2

\* C6: the Tx sign returns is written, the bytes are parsed, and the parsed
\* Tx is written again: parsing succeeds and the bytes are the same.
C6_WireRoundTrip ==
    Signed =>
        LET bytes == Tx_write_to_stream(res.ret)
            parsed == Tx_read_from_stream(bytes)
        IN  /\ parsed.ok
            /\ parsed.rest = <<>>
            /\ Tx_write_to_stream(parsed.value) = bytes

\* C6 witness: a signed Tx with a lock time, a P2SH witness and an OP_RETURN
\* output of non-minimal pushes went through the round trip
C6_Witness_LockTimeAndPushes ==
    /\ Signed
    /\ res.ret.lock_time /= Zeros(4)
    /\ \E i \in 1 .. Len(res.ret.inputs) : utx.inputs[i].output.kind = "P2SH"
    /\ \E i \in 1 .. Len(res.ret.outputs) : ~res.ret.outputs[i].script.is_minimal_push
    /\ Tx_read_from_stream(Tx_write_to_stream(res.ret)).ok

----------------------------------------------------------------------------
(* The compact-size integer: write_var_int into a stream that other bytes   *)
(* follow, then read_var_int on that stream.                                *)

\* u64 values at and around every width boundary of the encoding
VarIntNumbers ==
    {ZeroExtend(Fill(w, d), 8) : w \in 0 .. 8, d \in {1, 252, 253, 254, 255}}
        \cup {ZeroExtend(Zeros(w) \o <<1>>, 8) : w \in 0 .. 7}
        \cup {ZeroExtend(<<d>> \o Zeros(w) \o <<1>>, 8) : w \in 0 .. 6, d \in {252, 253}}

\* what follows the var-int in the stream
Trailers == {<<>>, <<0>>, <<253, 1>>}

InitVarInt ==
    /\ IdleBuilder /\ IdleScript /\ IdleOp /\ IdleCall
    /\ vi_number \in VarIntNumbers
    /\ vi_stream = <<>>
    /\ vi_read = None

WriteVarInt(trailer) ==
    /\ vi_stream = <<>>
    /\ vi_stream' = write_var_int(vi_number) \o trailer
    /\ UNCHANGED <<vi_number, vi_read>>

ReadVarInt ==
    /\ vi_stream /= <<>>
    /\ vi_read = None
    /\ vi_read' = Some(read_var_int(vi_stream))
    /\ UNCHANGED <<vi_number, vi_stream>>

NextVarInt ==
    /\ \/ \E trailer \in Trailers : WriteVarInt(trailer)
       \/ ReadVarInt
    /\ UNCHANGED <<utx, res, overflow_checks, sc_data, sc_script,
                   op_push, op_flag, op_bytes, fn_call, fn_ret>>

SpecVarInt == InitVarInt /\ [][NextVarInt]_vars

\* the width the encoding of n is said to have: 1, 3, 5 or 9 bytes for
\* n <= 0xfc, n <= 0xffff, n <= 0xffff_ffff and larger
VarIntWidth(n) ==
    IF LeLess(n, ZeroExtend(<<253>>, 8)) THEN 1
    ELSE IF LeLess(n, ZeroExtend(<<0, 0, 1>>, 8)) THEN 3
    ELSE IF LeLess(n, ZeroExtend(<<0, 0, 0, 0, 1>>, 8)) THEN 5
    ELSE 9

\* C10: read_var_int on the bytes write_var_int(n) wrote returns n and
\* consumes exactly those bytes, which are 1, 3, 5 or 9 by the range of n;
\* what followed them in the stream is left unread.
C10_VarIntRoundTrip ==
    vi_read /= None =>
        LET r == Unwrap(vi_read) IN
        /\ r.ok
        /\ r.value = vi_number
        /\ Len(vi_stream) - Len(r.rest) = VarIntWidth(vi_number)
        /\ r.rest = Drop(vi_stream, VarIntWidth(vi_number))
        /\ r.rest \in Trailers

\* C10 witness: 0xfd, the first value of the three-byte form, and 2^64 - 1
\* have been written before further bytes and read back
C10_Witness_Boundary ==
    /\ vi_read /= None
    /\ vi_number \in {ZeroExtend(<<253>>, 8), Fill(8, 255)}
    /\ Unwrap(vi_read).ok
    /\ Unwrap(vi_read).rest = <<253, 1>>

----------------------------------------------------------------------------
(* Op::write_to_stream on a push                                            *)

\* payload lengths on both sides of every row of the push table
PushLengths == {2, 3, 75, 76, 77, 255, 256, 257, 65535, 65536}

PushPayloads ==
    {<<>>} \cup {<<b>> : b \in {0, 1, 16, 17, 171}}
        \cup {Fill(len, b) : len \in PushLengths, b \in {0, 7, 171}}

InitOp ==
    /\ IdleBuilder /\ IdleScript /\ IdleVarInt /\ IdleCall
    /\ op_push \in {Push(v) : v \in PushPayloads}
    /\ op_flag \in BOOLEAN
    /\ op_bytes = None

WriteOp ==
    /\ op_bytes = None
    /\ op_bytes' = Some(Op_write_to_stream(op_push, op_flag))
    /\ UNCHANGED <<op_push, op_flag>>

NextOp ==
    /\ WriteOp
    /\ UNCHANGED <<utx, res, overflow_checks, sc_data, sc_script,
                   vi_number, vi_stream, vi_read, fn_call, fn_ret>>

SpecOp == InitOp /\ [][NextOp]_vars

\* the push table, row by row
PushTable(v, is_minimal_push) ==
    LET len == Len(v) IN
    IF is_minimal_push /\ len = 1 /\ v[1] >= 1 /\ v[1] <= 16 THEN <<80 + v[1]>>
    ELSE IF len = 0 /\ ~is_minimal_push THEN <<76, 0>>
    ELSE IF len <= 75 THEN <<len>> \o v
    ELSE IF len <= 255 THEN <<76, len>> \o v
    ELSE IF len <= 65535 THEN <<77, len % 256, len \div 256>> \o v
    ELSE <<78, len % 256, (len \div 256) % 256, (len \div 65536) % 256,
           len \div 16777216>> \o v

----------------------------------------------------------------------------
(* Scripts parsed from bytes and scripts built from ops                     *)

MaxScriptLen == 4

MaxOps == 3

\* OP_0, short pushes, the three OP_PUSHDATA codes, OP_RETURN, OP_CODESEPARATOR
ScriptBytes == {0, 1, 2, OpPushData1, OpPushData2, OpPushData4, OpReturn, OpCodeSeparator}

OpChoices ==
    {Push(<<>>), Push(<<2>>), Push(<<OpCodeSeparator>>), Code(OpCodeSeparator), Code(OpDup)}

NotCalled == <<>>

\* the call made and what it returned
Called(call, ret) == <<[call |-> call, ret |-> ret]>>

InitScript ==
    /\ IdleBuilder /\ IdleOp /\ IdleVarInt /\ IdleCall
    /\ sc_data \in ListsUpTo(ScriptBytes, MaxScriptLen)
    /\ sc_script = NotCalled

FromSerialized ==
    /\ sc_script = NotCalled
    /\ sc_script' = Called("from_serialized", from_serialized(sc_data))
    /\ UNCHANGED sc_data

\* a script built from ops is handed no bytes
ScriptNew(ops) ==
    /\ sc_script = NotCalled
    /\ sc_data = <<>>
    /\ sc_script' = Called("new", Some(Script_new(ops)))
    /\ UNCHANGED sc_data

ScriptNewNonMinimalPush(ops) ==
    /\ sc_script = NotCalled
    /\ sc_data = <<>>
    /\ sc_script' = Called("new_non_minimal_push", Some(Script_new_non_minimal_push(ops)))
    /\ UNCHANGED sc_data

NextScript ==
    /\ \/ FromSerialized
       \/ sc_data = <<>> /\ \E ops \in ListsUpTo(OpChoices, MaxOps) : ScriptNew(ops)
       \/ sc_data = <<>> /\ \E ops \in ListsUpTo(OpChoices, MaxOps) :
                                ScriptNewNonMinimalPush(ops)
    /\ UNCHANGED <<utx, res, overflow_checks, op_push, op_flag, op_bytes,
                   vi_number, vi_stream, vi_read, fn_call, fn_ret>>

SpecScript == InitScript /\ [][NextScript]_vars

\* a script was obtained: built, or parsed with success
HasScript == sc_script /= NotCalled /\ sc_script[1].ret /= None

TheScript == Unwrap(sc_script[1].ret)

Parsed == HasScript /\ sc_script[1].call = "from_serialized"

\* C7: whenever Script::from_serialized(b) succeeds, the parsed script's
\* to_vec() is b.
C7_ParsedToVec ==
    Parsed => to_vec(TheScript) = sc_data

\* C7 witness: the bytes 01 02, a one-byte push that minimal-push would write
\* as OP_2, were parsed
C7_Witness_NonMinimalBytes ==
    /\ Parsed
    /\ sc_data = <<1, 2>>
    /\ TheScript.ops = <<Push(<<2>>)>>

\* the place of the rightmost OP_CODESEPARATOR op, 0 when there is none
RightmostSeparator(ops) ==
    IF \A i \in 1 .. Len(ops) : ops[i] /= Code(OpCodeSeparator) THEN 0
    ELSE CHOOSE i \in 1 .. Len(ops) :
            /\ ops[i] = Code(OpCodeSeparator)
            /\ \A j \in i + 1 .. Len(ops) : ops[j] /= Code(OpCodeSeparator)

\* C8: for every script, built or parsed, to_vec_sig() is to_vec() when no op
\* is OP_CODESEPARATOR, and otherwise the serialization of the ops strictly
\* after the rightmost one.
C8_ToVecSig ==
    HasScript =>
        LET ops == TheScript.ops
            sep == RightmostSeparator(ops)
        IN  IF sep = 0 THEN to_vec_sig(TheScript) = to_vec(TheScript)
            ELSE to_vec_sig(TheScript)
                    = write_ops(SubSeq(ops, sep + 1, Len(ops)), TheScript.is_minimal_push)

\* the offsets (0-based) at which the ops of a byte string start, each op
\* taking its opcode byte, its length field and the payload it declares
RECURSIVE OpStarts(_, _)
OpStarts(data, idx) ==
    IF idx >= Len(data) THEN {}
    ELSE LET byte == data[idx + 1]
             width == CASE byte = OpPushData1 -> 1
                        [] byte = OpPushData2 -> 2
                        [] byte = OpPushData4 -> 4
                        [] OTHER -> 0
             len_field == Slice(data, idx + 1, Min(idx + 1 + width, Len(data)))
             declared == IF byte = 0 \/ byte > OpPushData4 THEN 0
                         ELSE IF byte <= 75 THEN byte
                         ELSE LeValue(len_field)
         IN  {idx} \cup OpStarts(data, idx + 1 + width + declared)

\* the payload bytes the op at idx declares, and those left after its
\* length field
DeclaredPayload(data, idx) ==
    LET byte == data[idx + 1]
    IN  CASE byte = 0 \/ byte > OpPushData4 -> 0
          [] byte <= 75 -> byte
          [] byte = OpPushData1 -> LeValue(Slice(data, idx + 1, Min(idx + 2, Len(data))))
          [] byte = OpPushData2 -> LeValue(Slice(data, idx + 1, Min(idx + 3, Len(data))))
          [] OTHER -> LeValue(Slice(data, idx + 1, Min(idx + 5, Len(data))))

RemainingPayload(data, idx) ==
    LET byte == data[idx + 1]
        width == CASE byte = OpPushData1 -> 1
                   [] byte = OpPushData2 -> 2
                   [] byte = OpPushData4 -> 4
                   [] OTHER -> 0
    IN  Len(data) - (idx + 1 + width)

FromSerializedCalled == sc_script /= NotCalled /\ sc_script[1].call = "from_serialized"

\* C13: a Script created by from_serialized is marked slp-safe only if every
\* op of the bytes is a push other than a bare 0x00, or OP_RETURN: no other
\* opcode anywhere, the first byte included, and no OP_0.
C13_SlpSafeOnlyIf ==
    (Parsed /\ TheScript.is_slp_safe) =>
        \A idx \in OpStarts(sc_data, 0) :
            LET byte == sc_data[idx + 1]
            IN  byte = OpReturn \/ (byte >= 1 /\ byte <= OpPushData4)

\* C14: from_serialized returns None, and TxOutput::read_from_stream an
\* InvalidData error for an output carrying the bytes as its script, whenever
\* a push of the bytes declares more payload than remains after its length
\* field.
C14_TruncatedIsError ==
    (/\ FromSerializedCalled
     /\ \E idx \in OpStarts(sc_data, 0) :
            DeclaredPayload(sc_data, idx) > RemainingPayload(sc_data, idx)) =>
        /\ sc_script[1].ret = None
        /\ TxOutput_read_from_stream(Zeros(8) \o write_var_int(U64(Len(sc_data))) \o sc_data)
              = Err("InvalidData")

----------------------------------------------------------------------------
(* serialize.rs: script numbers.  An i32 is a plain integer between         *)
(* -2^31 and 2^31 - 1; every operation that can leave that range is written *)
(* out, so that it panics (overflow checks on) or wraps (off) as the build  *)
(* does.                                                                    *)

\* i32::MIN
I32Min == (-2147483647) - 1

\* i32::abs
abs_i32(int, checks) ==
    IF int = I32Min THEN (IF checks THEN Panic ELSE Return(I32Min))
    ELSE Return(IF int < 0 THEN -int ELSE int)

\* write_i32::<LittleEndian>: the four bytes of the two's complement
write_i32(int) ==
    IF int >= 0 THEN LeBytes(int, 4)
    ELSE LET low == LeBytes((int + 2147483647) + 1, 4)
         IN  [low EXCEPT ![4] = @ + 128]

\* the place (1-based) of the last non-zero byte before the last byte, or 0
last_non_zero(vec) ==
    IF \A j \in 1 .. Len(vec) - 1 : vec[j] = 0 THEN 0
    ELSE CHOOSE j \in 1 .. Len(vec) - 1 :
            vec[j] /= 0 /\ \A k \in j + 1 .. Len(vec) - 1 : vec[k] = 0

\* a faulty variant: the sign always goes into the last non-zero byte, even
\* when that byte's top bit is taken
encode_minimally_no_extra_byte(vec) ==
    IF vec = <<>> THEN vec
    ELSE LET last == vec[Len(vec)]
             j == last_non_zero(vec)
         IN  IF last % 128 /= 0 THEN vec
             ELSE IF Len(vec) = 1 THEN <<>>
             ELSE IF vec[Len(vec) - 1] >= 128 THEN vec
             ELSE IF j = 0 THEN <<>>
             ELSE Take(vec, j - 1) \o <<(vec[j] % 128) + last>>

encode_minimally(vec) ==
    IF vec = <<>> THEN vec
    ELSE LET last == vec[Len(vec)]
             j == last_non_zero(vec)
         IN  IF last % 128 /= 0 THEN vec
             ELSE IF Len(vec) = 1 THEN <<>>
             ELSE IF vec[Len(vec) - 1] >= 128 THEN vec
             ELSE IF j = 0 THEN <<>>
             ELSE IF vec[j] >= 128 THEN Take(vec, j) \o <<last>>
             ELSE Take(vec, j - 1) \o <<vec[j] + last>>

encode_int(int, checks) ==
    LET magnitude == abs_i32(int, checks)
    IN  IF magnitude.panic THEN Panic
        ELSE Return(encode_minimally(write_i32(magnitude.value)
                                     \o (IF int < 0 THEN <<128>> ELSE <<>>)))

\* n_bytes - 1 underflows for n_bytes = 0: a panic with overflow checks, and
\* without them a range of usize::MAX - 4 zeros, which no allocation holds
encode_int_n(int, n_bytes, checks) ==
    LET magnitude == abs_i32(int, checks)
    IN  IF magnitude.panic \/ n_bytes = 0 THEN Panic
        ELSE Return(write_i32(magnitude.value)
                    \o Zeros(IF n_bytes - 1 > 4 THEN n_bytes - 1 - 4 ELSE 0)
                    \o <<IF int < 0 THEN 128 ELSE 0>>)

encode_bool(b) == IF b THEN <<1>> ELSE <<>>

\* `(value as i32) << shift` of a byte: a shift of 32 or more panics with
\* overflow checks and is taken modulo 32 without; bits shifted out are lost
shl_i32(value, shift, checks) ==
    IF shift >= 32 /\ checks THEN Panic
    ELSE LET by == shift % 32
         IN  Return(CASE by = 0 -> value
                      [] by = 8 -> value * 256
                      [] by = 16 -> value * 65536
                      [] OTHER -> (value % 128) * 16777216
                                  + (IF value >= 128 THEN I32Min ELSE 0))

\* `a + b` on i32
add_i32(a, b, checks) ==
    IF a >= 0 /\ b > 2147483647 - a
    THEN (IF checks THEN Panic ELSE Return(((a - 2147483647) - 1) + ((b - 2147483647) - 1)))
    ELSE IF a < 0 /\ b < I32Min - a
    THEN (IF checks THEN Panic ELSE Return(((a + 2147483647) + 1) + ((b + 2147483647) + 1)))
    ELSE Return(a + b)

\* `int *= -1`
neg_i32(int, checks) ==
    IF int = I32Min THEN (IF checks THEN Panic ELSE Return(I32Min))
    ELSE Return(-int)

\* the loop of vec_to_int from byte i (1-based) on
RECURSIVE vec_to_int_from(_, _, _, _, _)
vec_to_int_from(vec, i, shift, int, checks) ==
    IF i > Len(vec) THEN Return(int)
    ELSE LET sign_bit == IF vec[Len(vec)] >= 128 THEN 128 ELSE 0
             is_sign_byte == i = Len(vec) /\ sign_bit /= 0
             shifted == shl_i32(IF is_sign_byte THEN vec[i] - sign_bit ELSE vec[i],
                                shift, checks)
             sum == IF shifted.panic THEN Panic ELSE add_i32(int, shifted.value, checks)
         IN  IF sum.panic THEN Panic
             ELSE IF is_sign_byte THEN neg_i32(sum.value, checks)
             ELSE vec_to_int_from(vec, i + 1, shift + 8, sum.value, checks)

vec_to_int(vec, checks) ==
    IF vec = <<>> THEN Return(0) ELSE vec_to_int_from(vec, 1, 0, 0, checks)

----------------------------------------------------------------------------
(* Script numbers: an integer is encoded, and the encoding decoded          *)

\* the widest fixed-width encoding asked for
MaxWidth == 6

\* integers at and around every byte boundary, of both signs, and i32::MIN
Magnitudes ==
    {0, 1, 2, 127, 128, 129, 255, 256, 32767, 32768, 65535, 65536,
     8388607, 8388608, 16777215, 16777216, 2147483646, 2147483647}

Int32s == Magnitudes \cup {-m : m \in Magnitudes} \cup {I32Min}

InitInt ==
    /\ utx = new_simple
    /\ res = NoResult
    /\ overflow_checks \in BOOLEAN
    /\ IdleScript /\ IdleOp /\ IdleVarInt
    /\ fn_call \in {[fn |-> "encode_int", int |-> i] : i \in Int32s}
            \cup {[fn |-> "encode_int_n", int |-> i, n_bytes |-> n] :
                    i \in Int32s, n \in 0 .. MaxWidth}
    /\ fn_ret = <<>>

EncodeInt ==
    /\ fn_call.fn = "encode_int"
    /\ fn_ret = <<>>
    /\ fn_ret' = <<encode_int(fn_call.int, overflow_checks)>>
    /\ UNCHANGED fn_call

EncodeIntN ==
    /\ fn_call.fn = "encode_int_n"
    /\ fn_ret = <<>>
    /\ fn_ret' = <<encode_int_n(fn_call.int, fn_call.n_bytes, overflow_checks)>>
    /\ UNCHANGED fn_call

\* the encoding is handed to vec_to_int
VecToInt ==
    /\ Len(fn_ret) = 1
    /\ ~fn_ret[1].panic
    /\ fn_ret' = Append(fn_ret, vec_to_int(fn_ret[1].value, overflow_checks))
    /\ UNCHANGED fn_call

NextInt ==
    /\ \/ EncodeInt
       \/ EncodeIntN
       \/ VecToInt
    /\ UNCHANGED <<utx, res, overflow_checks, sc_data, sc_script,
                   op_push, op_flag, op_bytes, vi_number, vi_stream, vi_read>>

SpecInt == InitInt /\ [][NextInt]_vars

\* minimal script-number form: empty, or the last byte carries magnitude
\* bits, or it is a bare sign byte that the byte before it makes necessary
MinimalNumber(vec) ==
    \/ vec = <<>>
    \/ vec[Len(vec)] % 128 /= 0
    \/ Len(vec) >= 2 /\ vec[Len(vec) - 1] >= 128

Encoded(fn) == fn_call /= <<>> /\ fn_call.fn = fn /\ Len(fn_ret) >= 1

Decoded(fn) == fn_call /= <<>> /\ fn_call.fn = fn /\ Len(fn_ret) = 2

\* C11: for every integer i with -(2^31)+1 <= i <= 2^31-1, encode_int(i)
\* returns a vector in minimal script-number form, never the encoding of
\* zero for a non-zero i, and vec_to_int of that vector is i.
C11_EncodeIntRoundTrip ==
    /\ (Encoded("encode_int") /\ fn_call.int /= I32Min) =>
          /\ ~fn_ret[1].panic
          /\ MinimalNumber(fn_ret[1].value)
          /\ (fn_ret[1].value = <<>>) = (fn_call.int = 0)
    /\ (Decoded("encode_int") /\ fn_call.int /= I32Min) =>
          fn_ret[2] = Return(fn_call.int)

\* C11 witness: -128, whose magnitude fills the top bit of its byte and so
\* needs a second byte for the sign, was encoded and decoded
C11_Witness_SignByte ==
    /\ Decoded("encode_int")
    /\ fn_call.int = -128
    /\ fn_ret[1] = Return(<<128, 128>>)

\* the least width that holds the magnitude of i with the sign bit free
WidthOf(int) ==
    LET m == IF int < 0 THEN -int ELSE int
    IN  CASE m < 128 -> 1
          [] m < 32768 -> 2
          [] m < 8388608 -> 3
          [] OTHER -> 4

\* the n-byte form: little-endian magnitude, sign bit in byte n - 1
FixedWidth(int, n) ==
    LET m == LeBytes(IF int < 0 THEN -int ELSE int, n)
    IN  [m EXCEPT ![n] = @ + (IF int < 0 THEN 128 ELSE 0)]

\* C12: for every i32 i and every width n >= 1 wide enough to hold the
\* magnitude of i with the sign bit free, encode_int_n(i, n) returns exactly
\* n bytes: the little-endian magnitude with the sign bit in byte n - 1.
C12_EncodeIntNWidth ==
    (/\ Encoded("encode_int_n")
     /\ fn_call.int /= I32Min
     /\ fn_call.n_bytes >= WidthOf(fn_call.int)) =>
        fn_ret[1] = Return(FixedWidth(fn_call.int, fn_call.n_bytes))

----------------------------------------------------------------------------
(* unsigned_tx.rs: selective serialization of a PreImage                    *)

\* PreImageWriteFlags with exactly the fields of `selected` set
PreImageWriteFlags(selected) ==
    [version |-> "version" \in selected,
     hash_prevouts |-> "hash_prevouts" \in selected,
     hash_sequence |-> "hash_sequence" \in selected,
     outpoint |-> "outpoint" \in selected,
     script_code |-> "script_code" \in selected,
     value |-> "value" \in selected,
     sequence |-> "sequence" \in selected,
     hash_outputs |-> "hash_outputs" \in selected,
     lock_time |-> "lock_time" \in selected,
     sighash_type |-> "sighash_type" \in selected]

\* a faulty variant: lockTime is written before hashOutputs
write_to_stream_flags_lock_time_early(pre_image, flags) ==
    (IF flags.version THEN pre_image.version ELSE <<>>)
    \o (IF flags.hash_prevouts THEN pre_image.hash_prevouts ELSE <<>>)
    \o (IF flags.hash_sequence THEN pre_image.hash_sequence ELSE <<>>)
    \o (IF flags.outpoint
        THEN pre_image.outpoint.tx_hash \o pre_image.outpoint.vout ELSE <<>>)
    \o (IF flags.script_code
        THEN LET script == to_vec_sig(pre_image.script_code)
             IN  write_var_int(U64(Len(script))) \o script
        ELSE <<>>)
    \o (IF flags.value THEN pre_image.value ELSE <<>>)
    \o (IF flags.sequence THEN pre_image.sequence ELSE <<>>)
    \o (IF flags.lock_time THEN pre_image.lock_time ELSE <<>>)
    \o (IF flags.hash_outputs THEN pre_image.hash_outputs ELSE <<>>)
    \o (IF flags.sighash_type THEN pre_image.sighash_type ELSE <<>>)

\* PreImage::write_to_stream_flags: the bytes written (a Vec never fails)
write_to_stream_flags(pre_image, flags) ==
    (IF flags.version THEN pre_image.version ELSE <<>>)
    \o (IF flags.hash_prevouts THEN pre_image.hash_prevouts ELSE <<>>)
    \o (IF flags.hash_sequence THEN pre_image.hash_sequence ELSE <<>>)
    \o (IF flags.outpoint
        THEN pre_image.outpoint.tx_hash \o pre_image.outpoint.vout ELSE <<>>)
    \o (IF flags.script_code
        THEN LET script == to_vec_sig(pre_image.script_code)
             IN  write_var_int(U64(Len(script))) \o script
        ELSE <<>>)
    \o (IF flags.value THEN pre_image.value ELSE <<>>)
    \o (IF flags.sequence THEN pre_image.sequence ELSE <<>>)
    \o (IF flags.hash_outputs THEN pre_image.hash_outputs ELSE <<>>)
    \o (IF flags.lock_time THEN pre_image.lock_time ELSE <<>>)
    \o (IF flags.sighash_type THEN pre_image.sighash_type ELSE <<>>)

\* PreImage::write_to_stream
PreImage_write_to_stream(pre_image) ==
    write_to_stream_flags(pre_image,
        [version |-> TRUE, hash_prevouts |-> TRUE, hash_sequence |-> TRUE,
         outpoint |-> TRUE, script_code |-> TRUE, value |-> TRUE, sequence |-> TRUE,
         hash_outputs |-> TRUE, lock_time |-> TRUE, sighash_type |-> TRUE])

----------------------------------------------------------------------------
(* Selective serialization: a PreImage is written in one or several calls   *)

\* the fields in canonical order
FieldOrder ==
    <<"version", "hash_prevouts", "hash_sequence", "outpoint", "script_code",
      "value", "sequence", "hash_outputs", "lock_time", "sighash_type">>

FieldNames == {FieldOrder[i] : i \in 1 .. Len(FieldOrder)}

\* a pre-image whose fields all differ and whose script_code has an
\* OP_CODESEPARATOR, and the all-zero pre-image of an empty script
SamplePreImage ==
    [version |-> LeBytes(2, 4), hash_prevouts |-> Fill(32, 1),
     hash_sequence |-> Fill(32, 2),
     outpoint |-> TxOutpoint(Fill(32, 3), LeBytes(7, 4)),
     script_code |-> Script_new(<<Code(OpDup), Code(OpCodeSeparator),
                                  Push(<<2>>), Push(Fill(20, 9)), Code(OpCheckSig)>>),
     value |-> U64(546), sequence |-> Fill(4, 255), hash_outputs |-> Fill(32, 4),
     lock_time |-> LeBytes(500000, 4), sighash_type |-> LeBytes(65, 4)]

PreImageChoices == {SamplePreImage, PreImage_empty(Script_empty)}

\* the k-th smallest (k from 1) of a set of numbers
KthSmallest(set, k) == CHOOSE b \in set : Cardinality({x \in set : x < b}) = k - 1

\* the split of the ten fields into consecutive groups that is cut after the
\* fields numbered in `cuts`: one flag set per group
GroupsCutAt(cuts) ==
    LET edges == cuts \cup {0, Len(FieldOrder)}
    IN  [g \in 1 .. Cardinality(cuts) + 1 |->
            PreImageWriteFlags({FieldOrder[i] :
                i \in KthSmallest(edges, g) + 1 .. KthSmallest(edges, g + 1)})]

Splits == {GroupsCutAt(cuts) : cuts \in SUBSET (1 .. Len(FieldOrder) - 1)}

InitPreImage ==
    /\ IdleBuilder /\ IdleScript /\ IdleOp /\ IdleVarInt
    /\ fn_call \in
          {[fn |-> "write_to_stream_flags", pre_image |-> p, flags |-> <<PreImageWriteFlags(f)>>] :
              p \in PreImageChoices, f \in SUBSET FieldNames}
          \cup {[fn |-> "write_to_stream_flags", pre_image |-> p, flags |-> groups] :
              p \in PreImageChoices, groups \in Splits}
    /\ fn_ret = <<>>

\* the next call of the list is made
WriteToStreamFlags ==
    /\ fn_call.fn = "write_to_stream_flags"
    /\ Len(fn_ret) < Len(fn_call.flags)
    /\ fn_ret' = Append(fn_ret,
                        write_to_stream_flags(fn_call.pre_image,
                                              fn_call.flags[Len(fn_ret) + 1]))
    /\ UNCHANGED fn_call

NextPreImage ==
    /\ WriteToStreamFlags
    /\ UNCHANGED <<utx, res, overflow_checks, sc_data, sc_script,
                   op_push, op_flag, op_bytes, vi_number, vi_stream, vi_read>>

SpecPreImage == InitPreImage /\ [][NextPreImage]_vars

\* the bytes of one field of a pre-image
FieldBytes(pre_image, name) ==
    CASE name = "outpoint" -> pre_image.outpoint.tx_hash \o pre_image.outpoint.vout
      [] name = "script_code" ->
            write_var_int(U64(Len(to_vec_sig(pre_image.script_code))))
            \o to_vec_sig(pre_image.script_code)
      [] OTHER -> pre_image[name]

\* the selected fields, each once, in canonical order
SelectedInOrder(pre_image, flags) ==
    Flatten([i \in 1 .. Len(FieldOrder) |->
                IF flags[FieldOrder[i]] THEN FieldBytes(pre_image, FieldOrder[i])
                ELSE <<>>])

FlagsCalled == fn_call /= <<>> /\ fn_call.fn = "write_to_stream_flags"

\* C15: every call of write_to_stream_flags writes exactly the selected
\* fields, each once, in the canonical order; and once every group of a split
\* of the ten fields into consecutive groups is written, the groups'
\* serializations concatenated are the write_to_stream serialization.
C15_SelectiveSerialization ==
    FlagsCalled =>
        /\ \A k \in 1 .. Len(fn_ret) :
              fn_ret[k] = SelectedInOrder(fn_call.pre_image, fn_call.flags[k])
        /\ (fn_call.flags \in Splits /\ Len(fn_ret) = Len(fn_call.flags)) =>
              Flatten(fn_ret) = PreImage_write_to_stream(fn_call.pre_image)

\* C15 witness: the pre-image with an OP_CODESEPARATOR in its script_code was
\* written in four groups, cut after the outpoint, after the script_code and
\* after the sequence
C15_Witness_FourGroups ==
    /\ FlagsCalled
    /\ fn_call.flags = GroupsCutAt({4, 5, 7})
    /\ Len(fn_ret) = 4
    /\ code_separator_pos(fn_call.pre_image.script_code.ops) /= None
    /\ Len(fn_ret[2]) = 1 + Len(to_vec_sig(fn_call.pre_image.script_code))

----------------------------------------------------------------------------
(* The Output trait: one method of one output is called                     *)

\* outputs that wrap nothing: two P2PKH outputs and three OP_RETURN outputs
\* (no push; an empty, a one-byte and an OP_PUSHDATA1 push, non-minimal; the
\* SLP lokad id)
PlainOutputs ==
    {P2PKHOutput(U64(170), Fill(20, 170)),
     P2PKHOutput(U64(4300), Fill(20, 187)),
     OpReturnOutput(<<>>, TRUE),
     OpReturnOutput(<<<<>>, <<2>>, Fill(76, 171)>>, FALSE),
     OpReturnOutput(<<<<83, 76, 80, 0>>>>, TRUE)}

\* each of them bare, wrapped in a P2SH, and wrapped twice
OutputsUnderTest ==
    PlainOutputs
        \cup {P2SHOutput(o) : o \in PlainOutputs}
        \cup {P2SHOutput(P2SHOutput(o)) : o \in PlainOutputs}

InitOutput ==
    /\ IdleBuilder /\ IdleScript /\ IdleOp /\ IdleVarInt
    /\ fn_call \in
          {[fn |-> f, output |-> o] :
              f \in {"value", "script", "script_code"}, o \in OutputsUnderTest}
          \cup {[fn |-> "sig_script", output |-> o, serialized_sig |-> sig,
                 serialized_pub_key |-> key] :
              o \in OutputsUnderTest, sig \in Signatures, key \in PubKeys}
    /\ fn_ret = <<>>

Value ==
    /\ fn_call.fn = "value"
    /\ fn_ret = <<>>
    /\ fn_ret' = <<Return(Output_value(fn_call.output))>>
    /\ UNCHANGED fn_call

ScriptOf ==
    /\ fn_call.fn = "script"
    /\ fn_ret = <<>>
    /\ fn_ret' = <<Return(Output_script(fn_call.output))>>
    /\ UNCHANGED fn_call

ScriptCode ==
    /\ fn_call.fn = "script_code"
    /\ fn_ret = <<>>
    /\ fn_ret' = <<Output_script_code(fn_call.output)>>
    /\ UNCHANGED fn_call

\* P2PKH, P2SH and OP_RETURN outputs do not look at the pre-image or at the
\* transaction's outputs
SigScript ==
    /\ fn_call.fn = "sig_script"
    /\ fn_ret = <<>>
    /\ fn_ret' = <<Output_sig_script(fn_call.output, fn_call.serialized_sig,
                                     fn_call.serialized_pub_key,
                                     PreImage_empty(Script_empty), <<>>)>>
    /\ UNCHANGED fn_call

NextOutput ==
    /\ \/ Value
       \/ ScriptOf
       \/ ScriptCode
       \/ SigScript
    /\ UNCHANGED <<utx, res, overflow_checks, sc_data, sc_script,
                   op_push, op_flag, op_bytes, vi_number, vi_stream, vi_read>>

SpecOutput == InitOutput /\ [][NextOutput]_vars

\* a method of a P2SHOutput has returned or aborted
P2SHCalled(fn) ==
    /\ fn_call /= <<>>
    /\ fn_call.fn = fn
    /\ fn_call.output.kind = "P2SH"
    /\ fn_ret /= <<>>

\* C16: for a P2SHOutput wrapping any inner output, value() is the inner
\* value, script() is OP_HASH160 <hash160 of the inner locking script's
\* bytes> OP_EQUAL, script_code() is the inner locking script, and
\* sig_script() is the inner output's witness ops in order followed by one
\* final push of the inner locking script's bytes (and aborts when the inner
\* output has no witness).
C16_P2SHOutput ==
    /\ P2SHCalled("value") =>
          fn_ret[1] = Return(Output_value(fn_call.output.output))
    /\ P2SHCalled("script") =>
          LET inner == to_vec(Output_script(fn_call.output.output))
          IN  /\ ~fn_ret[1].panic
              /\ fn_ret[1].value.ops = <<Code(OpHash160), Push(hash160(inner)), Code(OpEqual)>>
              /\ to_vec(fn_ret[1].value) = <<OpHash160, 20>> \o hash160(inner) \o <<OpEqual>>
    /\ P2SHCalled("script_code") =>
          fn_ret[1] = Return(Output_script(fn_call.output.output))
    /\ P2SHCalled("sig_script") =>
          LET inner == Output_sig_script(fn_call.output.output, fn_call.serialized_sig,
                                         fn_call.serialized_pub_key,
                                         PreImage_empty(Script_empty), <<>>)
          IN  IF inner.panic THEN fn_ret[1].panic
              ELSE /\ ~fn_ret[1].panic
                   /\ fn_ret[1].value.ops
                        = inner.value.ops
                          \o <<Push(to_vec(Output_script(fn_call.output.output)))>>

\* C16 witness: the witness of a P2SH wrapping a P2SH wrapping a P2PKH was
\* built: signature, public key, the P2PKH script, the inner P2SH script
C16_Witness_Nested ==
    /\ P2SHCalled("sig_script")
    /\ fn_call.output.output.kind = "P2SH"
    /\ fn_call.output.output.output.kind = "P2PKH"
    /\ ~fn_ret[1].panic
    /\ Len(fn_ret[1].value.ops) = 4
    /\ Len(fn_ret[1].value.ops[3].data) = 25
    /\ Len(fn_ret[1].value.ops[4].data) = 23

----------------------------------------------------------------------------
(* OP_RETURN outputs as the spent output of an input                        *)

\* the inputs of the transaction that spend an OP_RETURN output
OpReturnInputs == {i \in 1 .. Len(utx.inputs) : utx.inputs[i].output.kind = "OpReturn"}

\* C17: an OP_RETURN output has value 0 and its script_code() and
\* sig_script() abort; pre_images, estimate_size, sign and
\* insert_leftover_output abort, whatever their arguments and the build, on a
\* transaction one of whose inputs spends an OP_RETURN output.
C17_OpReturnNeverSignable ==
    OpReturnInputs /= {} =>
        /\ \A i \in OpReturnInputs :
              LET o == utx.inputs[i].output
              IN  /\ Output_value(o) = Zeros(8)
                  /\ Output_script_code(o) = Panic
                  /\ \A sig \in Signatures, key \in PubKeys :
                        Output_sig_script(o, sig, key, PreImage_empty(Script_empty),
                                          utx.outputs) = Panic
        /\ res.call \in {"pre_images", "estimate_size", "sign"} => res.panicked
        /\ \A idx \in 0 .. Len(utx.outputs), addr \in LeftoverAddresses,
              fee_per_kb \in FeeRates, dust_limit \in DustLimits, checks \in BOOLEAN :
                insert_leftover_output(utx, idx, addr, fee_per_kb, dust_limit, checks).ret
                    = Aborted

\* C17 witness: sign was called, with a signature and a key for every input,
\* on a transaction whose first input is a P2PKH and whose second input
\* spends an OP_RETURN output, and aborted
C17_Witness_SignAborts ==
    /\ res.call = "sign"
    /\ res.panicked
    /\ Len(utx.inputs) = 2
    /\ utx.inputs[1].output.kind = "P2PKH"
    /\ OpReturnInputs = {2}

----------------------------------------------------------------------------
(* script.rs: the opcodes of the Trade-Offer covenant                       *)

OpIf == 99

OpElse == 103

OpEndIf == 104

OpVerify == 105

OpToAltStack == 107

OpFromAltStack == 108

Op2Dup == 110

OpNip == 119

OpOver == 120

OpPick == 121

OpRot == 123

OpSwap == 124

OpTuck == 125

OpCat == 126

OpSplit == 127

OpNum2Bin == 128

OpBin2Num == 129

Op0NotEqual == 146

OpSub == 148

OpDiv == 150

OpMod == 151

OpNumEqualVerify == 157

OpGreaterThan == 160

OpLessThanOrEqual == 161

OpGreaterThanOrEqual == 162

OpMax == 164

OpSha256 == 168

OpHash256 == 170

OpCheckSigVerify == 173

OpCheckDataSigVerify == 187

----------------------------------------------------------------------------
(* outputs.rs: SLP SEND                                                     *)

Reverse(s) == [i \in 1 .. Len(s) |-> s[Len(s) + 1 - i]]

SLPSend(token_type, token_id, output_quantities) ==
    [token_type |-> token_type, token_id |-> token_id,
     output_quantities |-> output_quantities]

\* SLPSend::into_output: quantities are u64 digits, written big-endian
SLPSend_into_output(send) ==
    OpReturnOutput(
        <<<<83, 76, 80, 0>>, <<send.token_type>>, <<83, 69, 78, 68>>,
          Reverse(send.token_id)>>
            \o [i \in 1 .. Len(send.output_quantities) |->
                    Reverse(send.output_quantities[i])],
        FALSE)

\* var_int_to_vec of a usize
var_int_to_vec(number) == write_var_int(U64(number))

----------------------------------------------------------------------------
(* advanced_trade_offer.rs: the Trade-Offer covenant output                 *)

\* `x as i32` of the little-endian digits of a u32 or u64
as_i32(digits) ==
    LET low == Take(digits, 4)
    IN  IF low[4] >= 128 THEN LeValue([low EXCEPT ![4] = @ - 128]) + I32Min
        ELSE LeValue(low)

Cancel == [kind |-> "Cancel"]

AcceptFully == [kind |-> "AcceptFully"]

AcceptPartially(buy_amount) == [kind |-> "AcceptPartially", buy_amount |-> buy_amount]

_make_power_vec(self) ==
    IF self.is_inverted THEN <<self.power, 1>> ELSE <<self.power>>

\* the `serialize` fragment of _ops
serialize_ops ==
    <<Push(<<4>>), Code(OpNum2Bin),
      Push(<<1>>), Code(OpSplit), Push(<<1>>), Code(OpSplit), Push(<<1>>), Code(OpSplit),
      Code(OpSwap), Code(OpCat), Code(OpSwap), Code(OpCat), Code(OpSwap), Code(OpCat)>>

\* the length of the script of an SLP SEND with n zero quantities
slp_send_len(self, n) ==
    Len(to_vec(Output_script(SLPSend_into_output(
            SLPSend(self.token_type, self.token_id, [i \in 1 .. n |-> Zeros(8)])))))

\* AdvancedTradeOffer::_ops: the ops, or a panic.  encode_int panics, with
\* overflow checks, on a value whose `as i32` is i32::MIN
_ops(self, checks) ==
    LET price == encode_int(as_i32(self.price), checks)
        dust_amount == encode_int(as_i32(self.dust_amount), checks)
        fee_divisor == IF IsSome(self.fee_divisor)
                       THEN encode_int(as_i32(Unwrap(self.fee_divisor)), checks)
                       ELSE Panic
        zero == encode_int(0, checks)
        has_fee == IsSome(self.fee_address) /\ IsSome(self.fee_divisor)
        has_no_fee == ~IsSome(self.fee_address) /\ ~IsSome(self.fee_divisor)
    IN  IF price.panic \/ dust_amount.panic THEN Panic
        ELSE IF ~has_fee /\ ~has_no_fee THEN Panic
        ELSE IF has_fee /\ fee_divisor.panic THEN Panic
        ELSE LET
            push_fee_ops ==
                IF has_fee
                THEN LET send_fee_output ==
                            to_vec(Output_script(
                                P2PKHOutput(Zeros(8), Unwrap(self.fee_address))))
                         send_fee_script ==
                            write_var_int(U64(Len(send_fee_output))) \o send_fee_output
                     IN  <<Code(OpRot), Code(OpCat), Code(OpSwap),
                           Push(fee_divisor.value), Code(OpDiv),
                           Push(dust_amount.value), Code(OpMax),
                           Push(<<8>>), Code(OpNum2Bin),
                           Push(send_fee_script), Code(OpCat), Code(OpCat)>>
                ELSE <<Code(OpSwap), Code(OpCat)>>
        IN  Return(
            <<Push(Take(self.sell_amount_token, 4)),
              Code(OpCodeSeparator),
              Push(self.address),
              Code(OpRot), Code(OpIf), Code(OpToAltStack), Code(OpBin2Num)>>
            \o (IF ~self.is_inverted
                THEN <<Code(OpOver), Code(OpDup), Push(zero.value), Code(OpGreaterThan),
                       Code(OpVerify), Push(price.value), Code(OpDiv), Code(OpTuck),
                       Code(Op2Dup), Code(OpGreaterThanOrEqual), Code(OpVerify)>>
                ELSE <<Code(Op2Dup), Code(OpLessThanOrEqual), Code(OpVerify),
                       Code(OpOver), Code(OpDup), Push(zero.value), Code(OpGreaterThan),
                       Code(OpVerify), Code(OpTuck)>>)
            \o <<Code(OpSub), Code(OpTuck), Code(OpDup), Code(Op0NotEqual), Code(OpIf)>>
            \o serialize_ops
            \o <<Push(<<8>>), Push(<<9>>), Code(OpNum2Bin), Code(OpCat),
                 Code(OpElse),
                 Push(<<4>>), Code(OpNum2Bin),
                 Code(OpEndIf),
                 Push(<<8>>), Push(<<5>>), Code(OpNum2Bin), Code(OpCat),
                 Push(<<2>>), Code(OpPick), Code(Op0NotEqual),
                 Push(<<>>), Push(<<8>>), Code(OpNum2Bin), Code(OpSwap),
                 Code(OpIf),
                 Push(var_int_to_vec(slp_send_len(self, 3))),
                 Code(OpElse),
                 Push(var_int_to_vec(slp_send_len(self, 2))),
                 Code(OpEndIf),
                 Code(OpCat),
                 Push(to_vec(Output_script(SLPSend_into_output(
                            SLPSend(self.token_type, self.token_id, <<>>))))
                      \o <<8, 0, 0, 0, 0>>),
                 Code(OpCat), Code(OpSwap), Code(OpCat), Code(OpSwap)>>
            \o serialize_ops
            \o <<Code(OpCat), Code(OpOver), Code(Op0NotEqual), Code(OpIf),
                 Push(dust_amount.value), Push(<<8>>), Code(OpNum2Bin),
                 Push(<<23, OpHash160, 20>>),
                 Code(OpCat), Code(OpCat), Code(OpSwap),
                 Push(<<4>>), Code(OpNum2Bin), Push(<<4>>), Code(OpSwap), Code(OpCat),
                 Push(<<OpCodeSeparator>>), Code(OpCat),
                 Push(<<6>>), Code(OpPick), Code(OpCat), Code(OpHash160),
                 Push(<<OpEqual>>), Code(OpCat), Code(OpCat),
                 Code(OpElse), Code(OpNip), Code(OpEndIf), Code(OpSwap)>>
            \o (IF self.is_inverted
                THEN <<Push(price.value), Code(Op2Dup), Code(OpMod), Push(zero.value),
                       Code(OpNumEqualVerify), Code(OpDiv)>>
                ELSE <<>>)
            \o (IF has_fee THEN <<Code(OpTuck)>> ELSE <<>>)
            \o <<Push(<<8>>), Code(OpNum2Bin), Code(OpCat),
                 Push(write_var_int(U64(Len(to_vec(Output_script(
                            P2PKHOutput(Zeros(8), self.address))))))
                      \o <<OpDup, OpHash160, 20>>),
                 Code(OpFromAltStack), Code(OpDup), Code(OpToAltStack), Code(OpCat),
                 Push(<<OpEqualVerify, OpCheckSig>>), Code(OpCat), Code(OpCat)>>
            \o push_fee_ops
            \o <<Code(OpHash256), Code(OpSwap),
                 Code(OpCat), Code(OpCat), Code(OpCat), Code(OpCat),
                 Code(OpSha256), Code(OpOver), Push(<<65>>), Code(OpCat),
                 Push(<<3>>), Code(OpPick), Code(OpCheckSigVerify),
                 Code(OpRot), Code(OpCheckDataSigVerify),
                 Code(OpFromAltStack), Code(OpEqualVerify),
                 Push(Reverse(self.price)), Code(OpEqualVerify),
                 Push(_make_power_vec(self)), Code(OpEqualVerify),
                 Push(<<self.version>>), Code(OpEqualVerify),
                 Push(self.lokad_id), Code(OpEqual),
                 Code(OpElse),
                 Code(OpNip), Code(OpOver), Code(OpHash160), Code(OpEqualVerify),
                 Code(OpCheckSig),
                 Code(OpEndIf)>>)

\* AdvancedTradeOffer::script and script_code
AdvancedTradeOffer_script(self, checks) ==
    LET ops == _ops(self, checks)
    IN  IF ops.panic THEN Panic ELSE Return(Script_new(ops.value))

\* AdvancedTradeOffer::sig_script
AdvancedTradeOffer_sig_script(self, serialized_sig, serialized_pub_key, pre_image, outputs, checks) ==
    LET product == LeMul(self.sell_amount_token, ZeroExtend(self.price, 8))
        accept_fully_amount ==
            IF self.is_inverted THEN self.sell_amount_token ELSE product.value
    IN  IF ~self.is_inverted /\ product.overflow /\ checks THEN Panic
        ELSE IF ~IsSome(self.spend_params) THEN Panic
        ELSE IF Unwrap(self.spend_params) = Cancel
        THEN Return(Script_new(<<Push(serialized_sig), Push(serialized_pub_key),
                                 Push(<<>>)>>))
        ELSE LET
            params == Unwrap(self.spend_params)
            buy_amount == IF params = AcceptFully THEN accept_fully_amount
                          ELSE params.buy_amount
            is_accept_fully == params = AcceptFully \/ buy_amount = accept_fully_amount
            script == AdvancedTradeOffer_script(self, checks)
            from == IF is_accept_fully THEN 2 ELSE 3
            to == Len(outputs) - (IF IsSome(self.fee_address) THEN 1 ELSE 0)
            buy_amount_push == encode_int(as_i32(buy_amount), checks)
            one == encode_int(1, checks)
        IN  \* serialized_sig.remove(serialized_sig.len() - 1)
            IF serialized_sig = <<>> THEN Panic
            ELSE IF script.panic THEN Panic
            \* outputs[from .. to]
            ELSE IF to < 0 \/ from > to THEN Panic
            ELSE IF buy_amount_push.panic THEN Panic
            ELSE LET script_code == to_vec_sig(script.value) IN
                 Return(Script_new(
                    <<Push(self.lokad_id),
                      Push(<<self.version>>),
                      Push(_make_power_vec(self)),
                      Push(Reverse(self.price)),
                      Push(self.address),
                      Push(serialized_pub_key),
                      Push(Take(serialized_sig, Len(serialized_sig) - 1)),
                      Push(write_to_stream_flags(pre_image,
                                PreImageWriteFlags({"version", "hash_prevouts",
                                                    "hash_sequence", "outpoint"}))
                           \o write_var_int(U64(Len(script_code)))),
                      Push(script_code),
                      Push(write_to_stream_flags(pre_image,
                                PreImageWriteFlags({"value", "sequence"}))),
                      Push(write_to_stream_flags(pre_image,
                                PreImageWriteFlags({"lock_time", "sighash_type"}))),
                      Push(Flatten([i \in 1 .. to - from |->
                                      TxOutput_write_to_stream(outputs[from + i])])),
                      Push(buy_amount_push.value),
                      Push(one.value)>>))

----------------------------------------------------------------------------
(* The Trade-Offer: its locking script and its witnesses are constructed    *)

\* the most outputs of the spending transaction
MaxTxOutputs == 5

\* sell_amount_token and price: an everyday offer; a product of 2^64; an
\* amount above i32::MAX; a price of 2^31
OfferAmounts ==
    {[sell_amount_token |-> U64(1000), price |-> LeBytes(3, 4)],
     [sell_amount_token |-> <<0, 0, 0, 0, 0, 0, 0, 128>>, price |-> LeBytes(2, 4)],
     [sell_amount_token |-> <<0, 94, 208, 178, 0, 0, 0, 0>>, price |-> LeBytes(1, 4)],
     [sell_amount_token |-> U64(5), price |-> <<0, 0, 0, 128>>]}

FeeConfigs ==
    {[fee_address |-> a, fee_divisor |-> d] :
        a \in {None, Some(Fill(20, 238))}, d \in {None, Some(U64(500))}}

SpendParams ==
    {None, Some(Cancel), Some(AcceptFully)}
        \cup {Some(AcceptPartially(U64(b))) : b \in {0, 10, 1000, 3000}}

AdvancedTradeOffer(amounts, is_inverted, fee, spend_params) ==
    [value |-> U64(546), lokad_id |-> <<69, 88, 67, 72>>, version |-> 2, power |-> 0,
     is_inverted |-> is_inverted, token_id |-> Fill(32, 119), token_type |-> 1,
     sell_amount_token |-> amounts.sell_amount_token, price |-> amounts.price,
     dust_amount |-> U64(546), address |-> Fill(20, 170),
     fee_address |-> fee.fee_address, fee_divisor |-> fee.fee_divisor,
     spend_params |-> spend_params]

\* the outputs of a spending transaction: n payments that all differ
TxOutputs(n) ==
    [i \in 1 .. n |-> to_output(P2PKHOutput(U64(1000 * i), Fill(20, 16 * i)))]

InitOffer ==
    /\ utx = new_simple
    /\ res = NoResult
    /\ overflow_checks \in BOOLEAN
    /\ IdleScript /\ IdleOp /\ IdleVarInt
    /\ fn_call \in
          {[fn |-> f, offer |-> AdvancedTradeOffer(amounts, inv, fee, None)] :
              f \in {"script", "script_code"}, amounts \in OfferAmounts,
              inv \in BOOLEAN, fee \in FeeConfigs}
          \cup {[fn |-> "sig_script",
                 offer |-> AdvancedTradeOffer(amounts, inv, fee, params),
                 serialized_sig |-> <<7, 65>>, serialized_pub_key |-> Fill(33, 2),
                 pre_image |-> SamplePreImage, outputs |-> TxOutputs(n)] :
              amounts \in OfferAmounts, inv \in BOOLEAN, fee \in FeeConfigs,
              params \in SpendParams, n \in 1 .. MaxTxOutputs}
    /\ fn_ret = <<>>

OfferScript ==
    /\ fn_call.fn = "script"
    /\ fn_ret = <<>>
    /\ fn_ret' = <<AdvancedTradeOffer_script(fn_call.offer, overflow_checks)>>
    /\ UNCHANGED fn_call

OfferScriptCode ==
    /\ fn_call.fn = "script_code"
    /\ fn_ret = <<>>
    /\ fn_ret' = <<AdvancedTradeOffer_script(fn_call.offer, overflow_checks)>>
    /\ UNCHANGED fn_call

OfferSigScript ==
    /\ fn_call.fn = "sig_script"
    /\ fn_ret = <<>>
    /\ fn_ret' = <<AdvancedTradeOffer_sig_script(
                        fn_call.offer, fn_call.serialized_sig,
                        fn_call.serialized_pub_key, fn_call.pre_image,
                        fn_call.outputs, overflow_checks)>>
    /\ UNCHANGED fn_call

NextOffer ==
    /\ \/ OfferScript
       \/ OfferScriptCode
       \/ OfferSigScript
    /\ UNCHANGED <<utx, res, overflow_checks, sc_data, sc_script,
                   op_push, op_flag, op_bytes, vi_number, vi_stream, vi_read>>

SpecOffer == InitOffer /\ [][NextOffer]_vars

\* sig_script returned the witness of an accept
AcceptWitness ==
    /\ fn_call /= <<>>
    /\ fn_call.fn = "sig_script"
    /\ "offer" \in DOMAIN fn_call
    /\ fn_call.offer.spend_params
          \notin {None, Some(Cancel)}
    /\ fn_ret /= <<>>
    /\ ~fn_ret[1].panic

\* the full amount, sell_amount_token * price or, inverted, sell_amount_token:
\* its u64 digits, and whether it is too large for a u64
FullAmount(offer) ==
    IF offer.is_inverted THEN [value |-> offer.sell_amount_token, overflow |-> FALSE]
    ELSE LeMul(offer.sell_amount_token, ZeroExtend(offer.price, 8))

\* an accept is full when it is AcceptFully, or AcceptPartially of the full
\* amount
IsFullAccept(offer) ==
    LET params == Unwrap(offer.spend_params)
    IN  \/ params = AcceptFully
        \/ /\ ~FullAmount(offer).overflow
           /\ params.buy_amount = FullAmount(offer).value

\* C18: in an accept witness the outputs-tail push (the twelfth) is the
\* concatenated wire serialization of the outputs from index k up to but
\* excluding the last f, with k = 2 for a full accept and 3 for a partial
\* one, and f = 1 with a fee address and 0 without.
C18_OutputsTail ==
    AcceptWitness =>
        LET offer == fn_call.offer
            k == IF IsFullAccept(offer) THEN 2 ELSE 3
            f == IF IsSome(offer.fee_address) THEN 1 ELSE 0
            n == Len(fn_call.outputs)
        IN  fn_ret[1].value.ops[12]
                = Push(Flatten([i \in 1 .. n - f - k |->
                                  TxOutput_write_to_stream(fn_call.outputs[k + i])]))

\* C19: in an AcceptFully witness the buy_amount push (the thirteenth)
\* decodes, with vec_to_int, to the full amount, and in an AcceptPartially
\* witness to the given buy_amount.
C19_BuyAmountPush ==
    AcceptWitness =>
        LET offer == fn_call.offer
            params == Unwrap(offer.spend_params)
            amount == IF params = AcceptFully THEN FullAmount(offer)
                      ELSE [value |-> params.buy_amount, overflow |-> FALSE]
            decoded == vec_to_int(fn_ret[1].value.ops[13].data, overflow_checks)
        IN  /\ ~decoded.panic
            /\ ~amount.overflow
            /\ decoded.value >= 0
            /\ amount.value = U64(decoded.value)

\* an op that only the fee output's part of the script has
IsFeeOp(o) == o = Code(OpMax)

\* script() or script_code() was called
ScriptConstructed ==
    /\ fn_call /= <<>>
    /\ "offer" \in DOMAIN fn_call
    /\ fn_call.fn \in {"script", "script_code"}
    /\ fn_ret /= <<>>

\* sig_script was called for an accept
AcceptCalled ==
    /\ fn_call /= <<>>
    /\ "offer" \in DOMAIN fn_call
    /\ fn_call.fn = "sig_script"
    /\ fn_call.offer.spend_params \notin {None, Some(Cancel)}
    /\ fn_ret /= <<>>

FeeBoth(offer) == IsSome(offer.fee_address) /\ IsSome(offer.fee_divisor)

FeeNeither(offer) == ~IsSome(offer.fee_address) /\ ~IsSome(offer.fee_divisor)

\* C20: script() and script_code() abort exactly when one of fee_address and
\* fee_divisor is set and the other is not, and then so does the construction
\* of an accept witness; a script that is returned has the fee output's ops
\* exactly when both are set.
C20_FeeConfig ==
    /\ ScriptConstructed =>
          /\ fn_ret[1].panic = (~FeeBoth(fn_call.offer) /\ ~FeeNeither(fn_call.offer))
          /\ ~fn_ret[1].panic =>
                ((\E i \in 1 .. Len(fn_ret[1].value.ops) :
                      IsFeeOp(fn_ret[1].value.ops[i])) = FeeBoth(fn_call.offer))
    /\ (AcceptCalled /\ ~FeeBoth(fn_call.offer) /\ ~FeeNeither(fn_call.offer)) =>
          fn_ret[1].panic

----------------------------------------------------------------------------
(* p2_ascending_nonce.rs: the Ascending-Nonce covenant output               *)

P2AscendingNonce(lokad_id, old_value, owner_pk, old_nonce, dust_limit, spend_params) ==
    [lokad_id |-> lokad_id, old_value |-> old_value, owner_pk |-> owner_pk,
     old_nonce |-> old_nonce, dust_limit |-> dust_limit, spend_params |-> spend_params]

NonceRedeem(payment_amount, new_nonce, owner_sig, is_terminal) ==
    [kind |-> "NonceRedeem", payment_amount |-> payment_amount,
     new_nonce |-> new_nonce, owner_sig |-> owner_sig, is_terminal |-> is_terminal]

NonceRefill(payment_amount) == [kind |-> "NonceRefill", payment_amount |-> payment_amount]

P2pk == [kind |-> "P2pk"]

OpLessThan == 159

Op2Drop == 109

OpRoll == 122

OpSize == 130

Op2Swap == 114

\* the ops of the nonce comparison: redeem when paymentAmount >= 0
nonce_check_ops ==
    <<Code(OpToAltStack), Code(OpBin2Num), Code(OpOver),
      Push(encode_int(6, TRUE).value), Code(OpPick), Push(<<>>), Code(OpGreaterThanOrEqual),
      Code(OpIf), Code(OpLessThan), Code(OpElse), Code(OpEqual), Code(OpEndIf),
      Code(OpVerify)>>

\* the ops that rebuild the successor script hash and the remaining value
successor_ops(dust_limit_push) ==
    <<Push(<<8>>), Code(OpNum2Bin), Code(OpDup), Code(OpToAltStack),
      Push(<<8>>), Code(OpSwap), Code(OpCat), Code(OpRot), Code(OpRot),
      Code(OpCat), Code(OpTuck), Code(OpCat), Code(OpHash160), Code(OpSwap),
      Code(OpToAltStack), Code(OpToAltStack), Code(Op2Dup), Code(OpSwap),
      Code(OpSub), Code(OpDup), Push(dust_limit_push), Code(OpGreaterThanOrEqual),
      Code(OpIf),
          Push(<<8>>), Code(OpNum2Bin), Push(<<23, OpHash160, 20>>),
          Code(OpFromAltStack), Push(<<OpEqual>>), Code(OpCat), Code(OpCat),
          Code(OpCat),
      Code(OpElse),
          Code(OpFromAltStack), Code(Op2Drop), Push(<<>>),
      Code(OpEndIf)>>

\* the ops that rebuild the pre-image and check both signatures
pre_image_ops ==
    <<Push(encode_int(7, TRUE).value), Code(OpRoll), Code(OpCat), Code(OpHash256), Code(OpSwap),
      Push(<<8>>), Code(OpNum2Bin), Push(encode_int(4, TRUE).value), Code(OpRoll), Code(OpSize),
      Push(encode_int(4 + 32 + 32 + (32 + 4) + 1 + 9, TRUE).value), Code(OpNumEqualVerify),
      Code(OpFromAltStack), Code(OpCat), Code(OpSwap), Code(OpCat),
      Push(<<255, 255, 255, 255>>), Code(OpCat), Code(OpSwap), Code(OpCat),
      Code(OpRot), Code(OpSize), Push(<<8>>), Code(OpNumEqualVerify),
      Code(OpCat), Code(OpSha256), Code(Op2Swap), Code(OpOver),
      Code(OpToAltStack), Code(Op2Dup), Push(<<65>>), Code(OpCat), Code(OpSwap),
      Code(OpCheckSigVerify), Code(OpRot), Code(OpRot),
      Code(OpCheckDataSigVerify), Code(OpDup), Push(<<>>),
      Code(OpGreaterThanOrEqual)>>

\* the ops that bind the payment to the owner's data signature on a redeem
payment_ops(lokad_id) ==
    <<Code(OpIf),
          Push(<<8>>), Code(OpNum2Bin), Code(OpFromAltStack), Code(OpHash160),
          Code(OpSwap), Code(OpCat), Code(OpFromAltStack), Code(OpCat),
          Code(OpFromAltStack), Code(OpCheckDataSigVerify), Push(lokad_id),
          Code(OpEqual),
      Code(OpElse),
          Code(Op2Drop),
      Code(OpEndIf)>>

P2AscendingNonce_ops(self, checks) ==
    LET magnitude == abs_i32(self.old_nonce, checks)
        dust_limit_push == encode_int(self.dust_limit, checks)
        sign_byte == IF self.old_nonce < 0 THEN 128 ELSE 0
    IN  IF magnitude.panic \/ dust_limit_push.panic THEN Panic
        ELSE Return(<<Push(write_i32(magnitude.value) \o <<0, 0, 0, sign_byte>>),
                      Push(self.owner_pk), Code(OpRot), Code(OpIf)>>
                    \o nonce_check_ops
                    \o successor_ops(dust_limit_push.value)
                    \o pre_image_ops
                    \o payment_ops(self.lokad_id)
                    \o <<Code(OpElse), Code(OpNip), Code(OpCheckSig), Code(OpEndIf)>>)

P2AscendingNonce_script(self, checks) ==
    LET ops == P2AscendingNonce_ops(self, checks)
    IN  IF ops.panic THEN Panic ELSE Return(Script_new(ops.value))

\* a faulty variant: the outputs-tail always skips the first output
outputs_post_skip_first(outputs, is_terminal) ==
    IF 1 > Len(outputs) THEN Panic
    ELSE Return(Flatten([i \in 1 .. Len(outputs) - 1 |->
                            TxOutput_write_to_stream(outputs[1 + i])]))

\* outputs[if is_terminal { 0 } else { 1 }..], each written to the stream
outputs_post(outputs, is_terminal) ==
    LET from == IF is_terminal THEN 0 ELSE 1
    IN  IF from > Len(outputs) THEN Panic
        ELSE Return(Flatten([i \in 1 .. Len(outputs) - from |->
                                TxOutput_write_to_stream(outputs[from + i])]))

\* u64 -> i32 by try_into().unwrap(): a value above i32::MAX aborts
try_into_i32(digits) ==
    IF LeExceeds(digits, 2147483647) THEN Panic ELSE Return(LeValue(digits))

P2AscendingNonce_sig_script(self, serialized_sig, serialized_pub_key, pre_image, outputs, checks) ==
    IF self.spend_params = None THEN Panic
    ELSE LET spend_params == Unwrap(self.spend_params) IN
    IF spend_params.kind = "P2pk"
    THEN Return(Script_new(<<Push(serialized_sig), Push(encode_int(0, checks).value)>>))
    ELSE
    LET redeem == spend_params.kind = "NonceRedeem"
        payment_amount == spend_params.payment_amount
        new_nonce == IF redeem THEN spend_params.new_nonce ELSE self.old_nonce
        owner_sig == IF redeem THEN spend_params.owner_sig ELSE <<>>
        is_terminal == IF redeem THEN spend_params.is_terminal ELSE FALSE
        script == P2AscendingNonce_script(self, checks)
        nonce_size == 9
        pk_size == 34
        tail == outputs_post(outputs, is_terminal)
        payment_push == encode_int(payment_amount, checks)
        old_value == try_into_i32(self.old_value)
        nonce_push == encode_int(new_nonce, checks)
    IN  IF \/ serialized_sig = <<>>
           \/ script.panic
           \/ tail.panic
           \/ payment_push.panic
           \/ old_value.panic
           \/ nonce_push.panic
        THEN Panic
        ELSE
        LET script_code == to_vec_sig(script.value)
            value_push == encode_int(old_value.value, checks)
        IN  IF Len(script_code) < nonce_size + pk_size THEN Panic
            ELSE Return(Script_new(
                   <<Push(self.lokad_id),
                     Push(owner_sig),
                     Push(tail.value),
                     Push(serialized_pub_key),
                     Push(Take(serialized_sig, Len(serialized_sig) - 1)),
                     Push(write_to_stream_flags(pre_image,
                             PreImageWriteFlags({"version", "hash_prevouts",
                                                 "hash_sequence", "outpoint"}))
                          \o write_var_int(U64(Len(script_code)))
                          \o Slice(script_code, 0, nonce_size)),
                     Push(write_to_stream_flags(pre_image,
                             PreImageWriteFlags({"lock_time", "sighash_type"}))),
                     Push(payment_push.value),
                     Push(value_push.value),
                     Push(Slice(Drop(script_code, nonce_size), 0, pk_size)),
                     Push(Drop(Drop(script_code, nonce_size), pk_size)),
                     Push(nonce_push.value),
                     Push(<<1>>)>>))

----------------------------------------------------------------------------
(* The Ascending-Nonce covenant: its locking script and its witnesses are   *)
(* constructed                                                              *)

\* a four-byte LOKAD id and one that makes the script longer than 252 bytes
LokadIds == {<<78, 79, 78, 67>>, Fill(90, 78)}

\* a compressed and an uncompressed owner key
OwnerKeys == {Fill(33, 3), Fill(65, 4)}

\* old values: an everyday one and one above i32::MAX
OldValues == {U64(100000), <<0, 0, 0, 128, 0, 0, 0, 0>>}

OldNonces == {5, -5, I32Min}

NewNonces == {3, 5, 7}

PaymentAmounts == {30000, 0, -1000}

NonceSpendParams ==
    {None, Some(P2pk)}
        \cup {Some(NonceRefill(p)) : p \in PaymentAmounts}
        \cup {Some(NonceRedeem(p, n, <<9, 9>>, t)) :
                 p \in PaymentAmounts, n \in NewNonces, t \in BOOLEAN}

InitNonce ==
    /\ utx = new_simple
    /\ res = NoResult
    /\ overflow_checks \in BOOLEAN
    /\ IdleScript /\ IdleOp /\ IdleVarInt
    /\ fn_call \in
          {[fn |-> f,
            nonce |-> P2AscendingNonce(l, U64(100000), k, n, d, None)] :
              f \in {"script", "script_code"}, l \in LokadIds, k \in OwnerKeys,
              n \in OldNonces, d \in {546, I32Min}}
          \cup {[fn |-> "sig_script",
                 nonce |-> P2AscendingNonce(l, v, k, n, 546, params),
                 serialized_sig |-> sig, serialized_pub_key |-> Fill(33, 2),
                 pre_image |-> SamplePreImage, outputs |-> TxOutputs(o)] :
              l \in LokadIds, v \in OldValues, k \in OwnerKeys, n \in OldNonces,
              params \in NonceSpendParams, sig \in {<<>>, <<7, 65>>},
              o \in 0 .. 2}
    /\ fn_ret = <<>>

NonceScript ==
    /\ fn_call.fn = "script"
    /\ "nonce" \in DOMAIN fn_call
    /\ fn_ret = <<>>
    /\ fn_ret' = <<P2AscendingNonce_script(fn_call.nonce, overflow_checks)>>
    /\ UNCHANGED fn_call

NonceScriptCode ==
    /\ fn_call.fn = "script_code"
    /\ "nonce" \in DOMAIN fn_call
    /\ fn_ret = <<>>
    /\ fn_ret' = <<P2AscendingNonce_script(fn_call.nonce, overflow_checks)>>
    /\ UNCHANGED fn_call

NonceSigScript ==
    /\ fn_call.fn = "sig_script"
    /\ "nonce" \in DOMAIN fn_call
    /\ fn_ret = <<>>
    /\ fn_ret' = <<P2AscendingNonce_sig_script(
                        fn_call.nonce, fn_call.serialized_sig,
                        fn_call.serialized_pub_key, fn_call.pre_image,
                        fn_call.outputs, overflow_checks)>>
    /\ UNCHANGED fn_call

NextNonce ==
    /\ \/ NonceScript
       \/ NonceScriptCode
       \/ NonceSigScript
    /\ UNCHANGED <<utx, res, overflow_checks, sc_data, sc_script,
                   op_push, op_flag, op_bytes, vi_number, vi_stream, vi_read>>

SpecNonce == InitNonce /\ [][NextNonce]_vars

\* sig_script of an Ascending-Nonce output was called with these parameters
NonceSpend(kind) ==
    /\ fn_call /= <<>>
    /\ fn_call.fn = "sig_script"
    /\ "nonce" \in DOMAIN fn_call
    /\ fn_call.nonce.spend_params /= None
    /\ Unwrap(fn_call.nonce.spend_params).kind = kind
    /\ fn_ret /= <<>>

\* C21: building the witness of a NonceRedeem whose new_nonce is not below
\* old_nonce aborts instead of yielding a witness
C21_RedeemRejected ==
    (NonceSpend("NonceRedeem")
        /\ Unwrap(fn_call.nonce.spend_params).new_nonce >= fn_call.nonce.old_nonce)
    => fn_ret[1].panic

\* sig_script returned the 13-push witness of a redeem or a refill
NonceWitness ==
    /\ (NonceSpend("NonceRedeem") \/ NonceSpend("NonceRefill"))
    /\ ~fn_ret[1].panic

\* the bytes of the locking script a returned witness was built for
NonceScriptCode_bytes ==
    to_vec_sig(P2AscendingNonce_script(fn_call.nonce, overflow_checks).value)

\* vec is the script-number of int: minimal, and of that value (the
\* magnitude 2^31 of i32::MIN takes four bytes and a sign byte)
IsScriptNumber(vec, int) ==
    /\ MinimalNumber(vec)
    /\ IF int = I32Min THEN vec = <<0, 0, 0, 128, 128>>
       ELSE vec_to_int(vec, FALSE) = Return(int)

\* C22: the witness of a NonceRedeem or NonceRefill is exactly 13 pushes:
\* LOKAD id, owner data-signature (empty on refill), the serialization of
\* all outputs after the first (of all outputs when is_terminal), covenant
\* pubkey, covenant signature without its last byte, pre-image prefix,
\* pre-image suffix (lock_time and sighash type), payment amount and old
\* value as script-numbers, the 34 script_code bytes after the first 9, the
\* rest of script_code, the new nonce as script-number (the old nonce on
\* refill) and the byte 1; the witness of P2pk is the signature and an
\* empty push.
C22_WitnessShape ==
    /\ NonceWitness =>
         LET self == fn_call.nonce
             params == Unwrap(self.spend_params)
             redeem == params.kind = "NonceRedeem"
             skipped == IF redeem /\ params.is_terminal THEN 0 ELSE 1
             script_code == NonceScriptCode_bytes
             pre_image == fn_call.pre_image
             w == fn_ret[1].value.ops
         IN  /\ Len(w) = 13
             /\ \A i \in 1 .. 13 : w[i].op = "Push"
             /\ w[1].data = self.lokad_id
             /\ w[2].data = (IF redeem THEN params.owner_sig ELSE <<>>)
             /\ w[3].data = Flatten([i \in 1 .. Len(fn_call.outputs) - skipped |->
                                TxOutput_write_to_stream(fn_call.outputs[skipped + i])])
             /\ w[4].data = fn_call.serialized_pub_key
             /\ Len(w[5].data) = Len(fn_call.serialized_sig) - 1
             /\ w[5].data = Take(fn_call.serialized_sig, Len(w[5].data))
             /\ Take(w[6].data, 104) =
                    FieldBytes(pre_image, "version")
                    \o FieldBytes(pre_image, "hash_prevouts")
                    \o FieldBytes(pre_image, "hash_sequence")
                    \o FieldBytes(pre_image, "outpoint")
             /\ w[7].data = FieldBytes(pre_image, "lock_time")
                            \o FieldBytes(pre_image, "sighash_type")
             /\ IsScriptNumber(w[8].data, params.payment_amount)
             /\ IsScriptNumber(w[9].data, LeValue(self.old_value))
             /\ w[10].data = SubSeq(script_code, 10, 43)
             /\ w[11].data = SubSeq(script_code, 44, Len(script_code))
             /\ IsScriptNumber(w[12].data,
                               IF redeem THEN params.new_nonce ELSE self.old_nonce)
             /\ w[13].data = <<1>>
    /\ (NonceSpend("P2pk") /\ ~fn_ret[1].panic) =>
         fn_ret[1].value.ops = <<Push(fn_call.serialized_sig), Push(<<>>)>>

\* a terminal redeem of a transaction with two outputs returned its witness
C22_Witness_Terminal ==
    /\ NonceWitness
    /\ NonceSpend("NonceRedeem")
    /\ Unwrap(fn_call.nonce.spend_params).is_terminal
    /\ Len(fn_call.outputs) = 2

\* C27: the pre-image prefix of a redeem/refill witness is the first four
\* pre-image fields, the var-int of the script_code length and the first 9
\* bytes of script_code, which are the push of encode_int_n(old_nonce, 8);
\* it is exactly 114 bytes long, and the suffix push exactly 8 bytes.
C27_PrefixSize ==
    NonceWitness =>
        LET self == fn_call.nonce
            script_code == NonceScriptCode_bytes
            pre_image == fn_call.pre_image
            w == fn_ret[1].value.ops
        IN  /\ w[6].data =
                   FieldBytes(pre_image, "version")
                   \o FieldBytes(pre_image, "hash_prevouts")
                   \o FieldBytes(pre_image, "hash_sequence")
                   \o FieldBytes(pre_image, "outpoint")
                   \o write_var_int(U64(Len(script_code)))
                   \o Take(script_code, 9)
            /\ Take(script_code, 9) =
                   <<8>> \o encode_int_n(self.old_nonce, 8, overflow_checks).value
            /\ Len(w[6].data) = 4 + 32 + 32 + 36 + 1 + 9
            /\ Len(w[7].data) = 8

----------------------------------------------------------------------------
(* The locking script run on a witness, by the consensus meaning of the     *)
(* opcodes it uses, as far as its first OP_VERIFY (the nonce check)         *)

\* the value of a script-number of at most four bytes
NumValue(vec) ==
    IF vec = <<>> THEN 0
    ELSE LET top == vec[Len(vec)]
             magnitude == LeValue([vec EXCEPT ![Len(vec)] = top % 128])
         IN  IF top >= 128 THEN -magnitude ELSE magnitude

\* a stack item is true unless it is zero or negative zero
Truthy(vec) ==
    \E i \in 1 .. Len(vec) : vec[i] /= 0 /\ ~(i = Len(vec) /\ vec[i] = 128)

BoolItem(b) == IF b THEN <<1>> ELSE <<>>

\* OP_BIN2NUM: the minimal script-number of the same value
Bin2Num(vec) ==
    IF vec = <<>> THEN <<>>
    ELSE LET negative == vec[Len(vec)] >= 128
             magnitude == [vec EXCEPT ![Len(vec)] = @ % 128]
             non_zero == {i \in 1 .. Len(vec) : magnitude[i] /= 0}
         IN  IF non_zero = {} THEN <<>>
             ELSE LET top == CHOOSE i \in non_zero : \A j \in non_zero : j <= i
                      kept == Take(magnitude, top)
                  IN  IF kept[top] >= 128
                      THEN kept \o <<IF negative THEN 128 ELSE 0>>
                      ELSE [kept EXCEPT ![top] = @ + (IF negative THEN 128 ELSE 0)]

\* whether the script, run from op `pc` on this stack, reaches its first
\* OP_VERIFY with a true item on top
RECURSIVE VerifyPasses(_, _, _, _, _)
VerifyPasses(ops, pc, stack, alt, conds) ==
    IF pc > Len(ops) THEN FALSE
    ELSE
    LET o == ops[pc]
        n == Len(stack)
        executing == \A i \in 1 .. Len(conds) : conds[i]
        is(code) == o.op = "Code" /\ o.code = code
        go(next_stack) == VerifyPasses(ops, pc + 1, next_stack, alt, conds)
        numbers == n >= 2 /\ Len(stack[n]) <= 4 /\ Len(stack[n - 1]) <= 4
        a == NumValue(stack[n - 1])
        b == NumValue(stack[n])
    IN  IF is(OpIf)
        THEN IF ~executing
             THEN VerifyPasses(ops, pc + 1, stack, alt, Append(conds, FALSE))
             ELSE n >= 1 /\ VerifyPasses(ops, pc + 1, Take(stack, n - 1), alt,
                                         Append(conds, Truthy(stack[n])))
        ELSE IF is(OpElse)
        THEN conds /= <<>>
             /\ VerifyPasses(ops, pc + 1, stack, alt,
                             [conds EXCEPT ![Len(conds)] = ~@])
        ELSE IF is(OpEndIf)
        THEN conds /= <<>>
             /\ VerifyPasses(ops, pc + 1, stack, alt, Take(conds, Len(conds) - 1))
        ELSE IF ~executing THEN go(stack)
        ELSE IF o.op = "Push" THEN go(Append(stack, o.data))
        ELSE IF is(OpRot)
        THEN n >= 3 /\ go(Take(stack, n - 3) \o <<stack[n - 1], stack[n], stack[n - 2]>>)
        ELSE IF is(OpToAltStack)
        THEN n >= 1 /\ VerifyPasses(ops, pc + 1, Take(stack, n - 1),
                                    Append(alt, stack[n]), conds)
        ELSE IF is(OpBin2Num)
        THEN n >= 1 /\ go(Append(Take(stack, n - 1), Bin2Num(stack[n])))
        ELSE IF is(OpOver)
        THEN n >= 2 /\ go(Append(stack, stack[n - 1]))
        ELSE IF is(OpPick)
        THEN n >= 1 /\ Len(stack[n]) <= 4 /\ b >= 0 /\ b < n - 1
             /\ go(Append(Take(stack, n - 1), stack[n - 1 - b]))
        ELSE IF is(OpGreaterThanOrEqual)
        THEN numbers /\ go(Append(Take(stack, n - 2), BoolItem(a >= b)))
        ELSE IF is(OpLessThan)
        THEN numbers /\ go(Append(Take(stack, n - 2), BoolItem(a < b)))
        ELSE IF is(OpEqual)
        THEN n >= 2 /\ go(Append(Take(stack, n - 2), BoolItem(stack[n - 1] = stack[n])))
        ELSE IF is(OpVerify)
        THEN n >= 1 /\ Truthy(stack[n])
        ELSE FALSE

\* the nonce check of the locking script passes on the returned witness
NonceCheckPasses ==
    LET w == fn_ret[1].value.ops
    IN  VerifyPasses(P2AscendingNonce_ops(fn_call.nonce, overflow_checks).value, 1,
                     [i \in 1 .. Len(w) |-> w[i].data], <<>>, <<>>)

\* C26: run on a witness with selector byte 1, the locking script's nonce
\* check passes only when new_nonce < old_nonce if the payment amount is not
\* negative (redeem), and only when new_nonce = old_nonce if it is (refill)
C26_NonceOrder ==
    (NonceWitness /\ NonceCheckPasses) =>
        LET self == fn_call.nonce
            params == Unwrap(self.spend_params)
            new_nonce == IF params.kind = "NonceRedeem" THEN params.new_nonce
                         ELSE self.old_nonce
        IN  IF params.payment_amount >= 0 THEN new_nonce < self.old_nonce
            ELSE new_nonce = self.old_nonce

----------------------------------------------------------------------------
(* Scripts are built or parsed, edited with add_op and extend, and their     *)
(* bytes parsed again                                                        *)

\* ops to build with: no single-byte push of 1..16
SmallOps ==
    {Push(<<>>), Push(<<17>>), Push(<<2, 3>>),
     Code(OpDup), Code(OpReturn), Code(OpCodeSeparator)}

\* op lists with payloads that take OP_PUSHDATA1, OP_PUSHDATA2 and OP_PUSHDATA4
LongPushOps ==
    {<<Push(Fill(76, 7))>>,
     <<Push(Fill(256, 8)), Code(OpDup)>>,
     <<Code(OpCodeSeparator), Push(Fill(65536, 9))>>}

\* bytes to parse: nothing, OP_DUP, a one-byte push and a two-byte push
WireScripts == {<<>>, <<OpDup>>, <<1, 17>>, <<2, 2, 3>>}

InitEdit ==
    /\ IdleBuilder /\ IdleOp /\ IdleVarInt /\ IdleCall
    /\ sc_data \in WireScripts
    /\ sc_script = NotCalled

AddOp(o) ==
    /\ HasScript
    /\ Len(TheScript.ops) < MaxOps
    /\ fn_call = <<>>
    /\ sc_script' = Called("add_op", Some(add_op(TheScript, o)))
    /\ UNCHANGED <<sc_data, fn_call, fn_ret>>

Extend(other) ==
    /\ HasScript
    /\ Len(TheScript.ops) + Len(other.ops) <= MaxOps
    /\ fn_call = <<>>
    /\ sc_script' = Called("extend", Some(extend(TheScript, other)))
    /\ UNCHANGED <<sc_data, fn_call, fn_ret>>

\* Script::from_serialized(&script.to_vec())
ToVecFromSerialized ==
    /\ HasScript
    /\ fn_call = <<>>
    /\ fn_call' = [fn |-> "from_serialized", script |-> TheScript,
                   data |-> to_vec(TheScript)]
    /\ fn_ret' = <<from_serialized(to_vec(TheScript))>>
    /\ UNCHANGED <<sc_data, sc_script>>

NextEdit ==
    /\ \/ FromSerialized /\ UNCHANGED <<fn_call, fn_ret>>
       \/ /\ sc_data = <<>>
          /\ \E ops \in ListsUpTo(SmallOps, 2) \cup LongPushOps : ScriptNew(ops)
          /\ UNCHANGED <<fn_call, fn_ret>>
       \/ \E o \in SmallOps : AddOp(o)
       \/ \E ops \in ListsUpTo(SmallOps, 2) : Extend(Script_new(ops))
       \/ ToVecFromSerialized
    /\ UNCHANGED <<utx, res, overflow_checks, op_push, op_flag, op_bytes,
                   vi_number, vi_stream, vi_read>>

SpecEdit == InitEdit /\ [][NextEdit]_vars

\* the bytes of a script that was never parsed were parsed
Reparsed ==
    /\ fn_call /= <<>>
    /\ fn_call.fn = "from_serialized"
    /\ "script" \in DOMAIN fn_call
    /\ fn_call.script.serialized = None
    /\ fn_call.script.is_minimal_push

\* C24: for every op list without single-byte pushes of 1..16, parsing the
\* bytes of Script::new(ops) gives ops back; a payload written with
\* OP_PUSHDATA1, OP_PUSHDATA2 or OP_PUSHDATA4 is parsed back as a push of
\* the same bytes, and to_vec_sig() of the parsed script is that of the
\* original.
C24_ParseRoundTrip ==
    Reparsed =>
        /\ fn_ret[1] /= None
        /\ Unwrap(fn_ret[1]).ops = fn_call.script.ops
        /\ to_vec_sig(Unwrap(fn_ret[1])) = to_vec_sig(fn_call.script)

\* C25: after any sequence of add_op and extend calls on a script, built or
\* parsed, to_vec() is the serialization of the script's current ops.
C25_EditedToVec ==
    (HasScript /\ sc_script[1].call \in {"add_op", "extend"}) =>
        to_vec(TheScript) = write_ops(TheScript.ops, TheScript.is_minimal_push)

\* sell amounts to compare an offer with: 1000, 5 and 2^32 + 1000
OtherSellAmounts == {U64(1000), U64(5), <<232, 3, 0, 0, 1, 0, 0, 0>>}

\* C29: the Trade-Offer locking script is the byte 4, the sell amount as 4
\* little-endian bytes, OP_CODESEPARATOR and then the sig-script form, which
\* does not depend on sell_amount_token; two offers that differ only in
\* sell_amount_token have different locking scripts, which differ only in
\* those 4 bytes.
C29_SellAmountSplice ==
    (ScriptConstructed /\ fn_call.fn = "script" /\ ~fn_ret[1].panic) =>
        LET offer == fn_call.offer
            script == fn_ret[1].value
            bytes == to_vec(script)
        IN  /\ Take(bytes, 1) = <<4>>
            /\ ZeroExtend(SubSeq(bytes, 2, 5), 8) = offer.sell_amount_token
            /\ bytes[6] = OpCodeSeparator
            /\ Drop(bytes, 6) = to_vec_sig(script)
            /\ \A amount \in OtherSellAmounts \ {offer.sell_amount_token} :
                  LET other == AdvancedTradeOffer_script(
                                   [offer EXCEPT !.sell_amount_token = amount],
                                   overflow_checks).value
                  IN  /\ to_vec_sig(other) = to_vec_sig(script)
                      /\ Take(to_vec(other), 1) = Take(bytes, 1)
                      /\ SubSeq(to_vec(other), 2, 5) /= SubSeq(bytes, 2, 5)
                      /\ Drop(to_vec(other), 5) = Drop(bytes, 5)

----------------------------------------------------------------------------
(* address.rs: CashAddr strings.  A string is the sequence of its ASCII     *)
(* codes; the 40-bit checksum register is kept as eight 5-bit groups, most  *)
(* significant first.                                                       *)

\* b"qpzry9x8gf2tvdw0s3jn54khce6mua7l"
CHARSET ==
    <<113, 112, 122, 114, 121, 57, 120, 56, 103, 102, 50, 116, 118, 100, 119, 48,
      115, 51, 106, 110, 53, 52, 107, 104, 99, 101, 54, 109, 117, 97, 55, 108>>

\* "bitcoincash"
DEFAULT_PREFIX == <<98, 105, 116, 99, 111, 105, 110, 99, 97, 115, 104>>

AddressType_P2PKH == 0

AddressType_P2SH == 8

\* a ^ b of two 5-bit values
xor5(a, b) ==
    ((a + b) % 2)
    + 2 * (((a \div 2) + (b \div 2)) % 2)
    + 4 * (((a \div 4) + (b \div 4)) % 2)
    + 8 * (((a \div 8) + (b \div 8)) % 2)
    + 16 * (((a \div 16) + (b \div 16)) % 2)

\* c ^= generator when the bit of c0 is set
xor_if(c, c0, bit, generator) ==
    IF (c0 \div bit) % 2 = 1 THEN [i \in 1 .. 8 |-> xor5(c[i], generator[i])] ELSE c

\* the loop of poly_mod from value `i` on; every value passed is below 32
RECURSIVE poly_mod_from(_, _, _)
poly_mod_from(values, i, c) ==
    IF i > Len(values) THEN c
    ELSE LET c0 == c[1]
             shifted == Drop(c, 1) \o <<values[i]>>
             c1 == xor_if(shifted, c0, 1, <<19, 3, 25, 11, 25, 3, 19, 1>>)
             c2 == xor_if(c1, c0, 2, <<15, 6, 27, 22, 27, 6, 15, 2>>)
             c3 == xor_if(c2, c0, 4, <<30, 12, 31, 5, 31, 12, 30, 4>>)
             c4 == xor_if(c3, c0, 8, <<21, 24, 23, 10, 23, 24, 21, 8>>)
             c5 == xor_if(c4, c0, 16, <<3, 25, 7, 20, 7, 25, 3, 16>>)
         IN  \* the test has c computed before the next round
             IF c5[1] < 32 THEN poly_mod_from(values, i + 1, c5) ELSE c5

poly_mod(values) ==
    LET c == poly_mod_from(values, 1, <<0, 0, 0, 0, 0, 0, 0, 1>>)
    IN  Take(c, 7) \o <<xor5(c[8], 1)>>

\* prefix.as_bytes().iter().map(|x| *x & 0x1f)
prefix_values(prefix) == [i \in 1 .. Len(prefix) |-> prefix[i] % 32]

calculate_checksum(prefix, payload) ==
    poly_mod(prefix_values(prefix) \o <<0>> \o payload \o Zeros(8))

verify_checksum(prefix, payload) ==
    poly_mod(prefix_values(prefix) \o <<0>> \o payload) = Zeros(8)

\* the loop of convert_bits from value `i` on: [acc, bits, ret], or None
RECURSIVE convert_bits_from(_, _, _, _, _, _, _)
convert_bits_from(data, i, from_bits, to_bits, acc, bits, ret) ==
    IF i > Len(data) THEN Some([acc |-> acc, bits |-> bits, ret |-> ret])
    ELSE IF data[i] \div 2 ^ from_bits /= 0 THEN None
    ELSE LET max_acc == 2 ^ (from_bits + to_bits - 1) - 1
             acc1 == (acc * 2 ^ from_bits + data[i]) % (max_acc + 1)
             bits1 == bits + from_bits
             pushes == bits1 \div to_bits
             bits2 == bits1 % to_bits
             pushed == [k \in 1 .. pushes |->
                          (acc1 \div 2 ^ (bits1 - k * to_bits)) % 2 ^ to_bits]
             ret1 == ret \o pushed
         IN  \* the test has acc and ret computed before the next round
             IF acc1 >= 0 /\ Len(ret1) >= 0
             THEN convert_bits_from(data, i + 1, from_bits, to_bits, acc1, bits2, ret1)
             ELSE None

convert_bits(data, from_bits, to_bits, pad) ==
    LET looped == convert_bits_from(data, 1, from_bits, to_bits, 0, 0, <<>>) IN
    IF looped = None THEN None
    ELSE LET acc == Unwrap(looped).acc
             bits == Unwrap(looped).bits
             ret == Unwrap(looped).ret
             rest == (acc * 2 ^ (to_bits - bits)) % 2 ^ to_bits
         IN  IF pad THEN Some(IF bits /= 0 THEN Append(ret, rest) ELSE ret)
             ELSE IF bits >= from_bits \/ rest /= 0 THEN None
             ELSE Some(ret)

b32_encode(data) == [i \in 1 .. Len(data) |-> CHARSET[data[i] + 1]]

InvalidChecksum == [error |-> "InvalidChecksum"]

InvalidBase32Letter(at, letter) ==
    [error |-> "InvalidBase32Letter", at |-> at, letter |-> letter]

InvalidAddressType(x) == [error |-> "InvalidAddressType", x |-> x]

\* the 5-bit values of the letters, or the first letter outside CHARSET
b32_decode(string) ==
    LET value(x) == (CHOOSE p \in 1 .. 32 : CHARSET[p] = x) - 1
        invalid == {i \in 1 .. Len(string) :
                       \A p \in 1 .. 32 : CHARSET[p] /= string[i]}
    IN  IF invalid = {}
        THEN [ok |-> TRUE, value |-> [i \in 1 .. Len(string) |-> value(string[i])]]
        ELSE LET first == CHOOSE i \in invalid : \A j \in invalid : i <= j
             IN  Err(InvalidBase32Letter(first - 1, string[first]))

to_cash_addr(prefix, addr_type, addr_bytes) ==
    LET version == addr_type
        payload == Unwrap(convert_bits(<<version>> \o addr_bytes, 8, 5, TRUE))
        check == calculate_checksum(prefix, payload)
    IN  prefix \o <<58>> \o b32_encode(payload \o check)

to_ascii_lowercase(string) ==
    [i \in 1 .. Len(string) |->
        IF string[i] >= 65 /\ string[i] <= 90 THEN string[i] + 32 ELSE string[i]]

\* lines 194-199: the prefix and the base32 payload of an address string
split_prefix(addr_string) ==
    LET colons == {i \in 1 .. Len(addr_string) : addr_string[i] = 58} IN
    IF colons /= {}
    THEN LET pos == (CHOOSE i \in colons : \A j \in colons : i <= j) - 1
         IN  [prefix |-> Take(Take(addr_string, pos + 1), pos),
              payload_base32 |-> Drop(addr_string, pos + 1)]
    ELSE [prefix |-> addr_string, payload_base32 |-> DEFAULT_PREFIX]

\* from_cash_addr: ([u8; 20], AddressType, String), an AddressError, or a
\* panic when the payload does not hold 20 address bytes
from_cash_addr(addr_string) ==
    LET lowered == to_ascii_lowercase(addr_string)
        prefix == split_prefix(lowered).prefix
        payload_base32 == split_prefix(lowered).payload_base32
        decoded == b32_decode(payload_base32)
    IN  IF ~decoded.ok THEN Return(decoded)
        ELSE IF ~verify_checksum(prefix, decoded.value) THEN Return(Err(InvalidChecksum))
        ELSE LET converted == Unwrap(convert_bits(decoded.value, 5, 8, TRUE))
             IN  IF Len(converted) < 7 \/ Len(converted) - 7 /= 20 THEN Panic
                 ELSE IF converted[1] \notin {AddressType_P2PKH, AddressType_P2SH}
                 THEN Return(Err(InvalidAddressType(converted[1])))
                 ELSE Return([ok |-> TRUE,
                              value |-> [bytes |-> Slice(converted, 1, Len(converted) - 6),
                                         addr_type |-> converted[1],
                                         prefix |-> prefix]])

Address(addr_type, bytes, cash_addr, prefix) ==
    [addr_type |-> addr_type, bytes |-> bytes, cash_addr |-> cash_addr, prefix |-> prefix]

Address_from_bytes_prefix(prefix, addr_type, bytes) ==
    Address(addr_type, bytes, to_cash_addr(prefix, addr_type, bytes), prefix)

Address_from_cash_addr(cash_addr) ==
    LET parts == from_cash_addr(cash_addr) IN
    IF parts.panic \/ ~parts.value.ok THEN parts
    ELSE Return([ok |-> TRUE,
                 value |-> Address(parts.value.value.addr_type, parts.value.value.bytes,
                                   cash_addr, parts.value.value.prefix)])

----------------------------------------------------------------------------
(* Addresses are written as CashAddr strings and read back                  *)

\* "simpleledger"
SlpPrefix == <<115, 105, 109, 112, 108, 101, 108, 101, 100, 103, 101, 114>>

AddressBytes == {Zeros(20), Fill(20, 170), Fill(20, 255), LeBytes(1, 20), [i \in 1 .. 20 |-> 11 * i]}

\* the strings of an address: as written, in upper case, without its
\* prefix, and with its last letter replaced
StringsOf(address) ==
    LET written == address.cash_addr
        bare == Drop(written, Len(address.prefix) + 1)
    IN  {written,
         [i \in 1 .. Len(written) |->
             IF written[i] >= 97 /\ written[i] <= 122 THEN written[i] - 32 ELSE written[i]],
         bare,
         [written EXCEPT ![Len(written)] = IF @ = 113 THEN 112 ELSE 113]}

InitAddress ==
    /\ IdleBuilder /\ IdleScript /\ IdleOp /\ IdleVarInt
    /\ fn_call \in
          {[fn |-> "from_bytes_prefix", prefix |-> p, addr_type |-> t, bytes |-> b] :
              p \in {DEFAULT_PREFIX, SlpPrefix},
              t \in {AddressType_P2PKH, AddressType_P2SH, 1}, b \in AddressBytes}
          \cup {[fn |-> "from_cash_addr", cash_addr |-> s] :
                  s \in UNION {StringsOf(Address_from_bytes_prefix(p, t, b)) :
                                  p \in {DEFAULT_PREFIX, SlpPrefix},
                                  t \in {AddressType_P2PKH, AddressType_P2SH, 1},
                                  b \in AddressBytes}}
    /\ fn_ret = <<>>

FromBytesPrefix ==
    /\ fn_call.fn = "from_bytes_prefix"
    /\ fn_ret = <<>>
    /\ fn_ret' = <<Address_from_bytes_prefix(fn_call.prefix, fn_call.addr_type,
                                             fn_call.bytes)>>
    /\ UNCHANGED fn_call

FromCashAddr ==
    /\ fn_call.fn = "from_cash_addr"
    /\ fn_ret = <<>>
    /\ fn_ret' = <<Address_from_cash_addr(fn_call.cash_addr)>>
    /\ UNCHANGED fn_call

NextAddress ==
    /\ \/ FromBytesPrefix
       \/ FromCashAddr
    /\ UNCHANGED <<utx, res, overflow_checks, sc_data, sc_script,
                   op_push, op_flag, op_bytes, vi_number, vi_stream, vi_read>>

SpecAddress == InitAddress /\ [][NextAddress]_vars

\* from_cash_addr was called on a string without a ':' and has returned
BareCalled ==
    /\ fn_call /= <<>>
    /\ fn_call.fn = "from_cash_addr"
    /\ "cash_addr" \in DOMAIN fn_call
    /\ \A i \in 1 .. Len(fn_call.cash_addr) : fn_call.cash_addr[i] /= 58
    /\ fn_ret /= <<>>

\* C30: Address::from_cash_addr of a string without a 'prefix:' part decodes
\* the whole string as the payload under the prefix bitcoincash: it returns
\* the 20 bytes and the address type that the same payload returns when it
\* is written with the 'bitcoincash:' prefix.
C30_DefaultPrefix ==
    BareCalled =>
        LET prefixed == Address_from_cash_addr(DEFAULT_PREFIX \o <<58>> \o fn_call.cash_addr)
        IN  (~prefixed.panic /\ prefixed.value.ok) =>
                /\ ~fn_ret[1].panic
                /\ fn_ret[1].value.ok
                /\ fn_ret[1].value.value.bytes = prefixed.value.value.bytes
                /\ fn_ret[1].value.value.addr_type = prefixed.value.value.addr_type
                /\ fn_ret[1].value.value.prefix = DEFAULT_PREFIX

====
